---- MODULE Spec2Model ----
(***************************************************************************)
(* Solar pump chatbot: the conversation stage machine (processUserInput),  *)
(* the water-demand / head / pump-selection / solar calculators            *)
(* (calculateRecommendation) and the curve-based selector                  *)
(* (findSuitablePump of pumpData.js).                                      *)
(*                                                                         *)
(* Text is modelled as TLA+ strings; String.includes, toLowerCase and the  *)
(* regular expressions of the source are computed character by character.  *)
(* JavaScript numbers are modelled as exact rationals [n, d] (d = 0 is     *)
(* NaN); `undefined` is the empty tuple and a defined value v is <<v>>.    *)
(***************************************************************************)
EXTENDS Integers, Sequences, FiniteSets, TLC

(***************************************************************************)
(* Numbers                                                                 *)
(***************************************************************************)
RECURSIVE Gcd(_, _)
Gcd(a, b) == IF b = 0 THEN a ELSE Gcd(b, a % b)

Abs(x) == IF x < 0 THEN -x ELSE x

NaN == [n |-> 0, d |-> 0]

IsNaN(x) == x.d = 0

\* the rational p/q in lowest terms with a positive denominator
Rat(p, q) ==
  IF q = 0 THEN NaN
  ELSE LET g == Gcd(Abs(p), Abs(q))
           s == IF q < 0 THEN -1 ELSE 1
       IN  [n |-> s * (p \div g), d |-> s * (q \div g)]

Num(i) == [n |-> i, d |-> 1]

Add(x, y) == IF IsNaN(x) \/ IsNaN(y) THEN NaN ELSE Rat(x.n * y.d + y.n * x.d, x.d * y.d)

Sub(x, y) == IF IsNaN(x) \/ IsNaN(y) THEN NaN ELSE Rat(x.n * y.d - y.n * x.d, x.d * y.d)

Mul(x, y) ==
  IF IsNaN(x) \/ IsNaN(y) THEN NaN
  ELSE LET g1 == Gcd(Abs(x.n), y.d)
           g2 == Gcd(Abs(y.n), x.d)
       IN  Rat((x.n \div g1) * (y.n \div g2), (x.d \div g2) * (y.d \div g1))

\* x / y; a division by zero does not arise where the source divides
Div(x, y) == IF IsNaN(x) \/ IsNaN(y) \/ y.n = 0 THEN NaN ELSE Mul(x, Rat(y.d, y.n))

\* comparisons with NaN are false, as in JavaScript
Geq(x, y) == ~IsNaN(x) /\ ~IsNaN(y) /\ x.n * y.d >= y.n * x.d

Leq(x, y) == Geq(y, x)

Gt(x, y) == ~IsNaN(x) /\ ~IsNaN(y) /\ x.n * y.d > y.n * x.d

Lt(x, y) == Gt(y, x)

\* Math.ceil of a non-negative rational, as an integer
Ceil(x) == (x.n + x.d - 1) \div x.d

(***************************************************************************)
(* Optional values: undefined and defined                                  *)
(***************************************************************************)
Undefined == <<>>

Some(v) == <<v>>

IsDef(f) == f # Undefined

Val(f) == f[1]

\* JavaScript truthiness of an optional number / string / boolean
TruthyNum(f) == IsDef(f) /\ ~IsNaN(Val(f)) /\ Val(f).n # 0

TruthyStr(f) == IsDef(f) /\ Val(f) # ""

TruthyBool(f) == IsDef(f) /\ Val(f)

\* (f || 0) for an optional number
OrZero(f) == IF TruthyNum(f) THEN Val(f) ELSE Num(0)

\* the value an undefined operand takes in arithmetic
ToNumber(f) == IF IsDef(f) THEN Val(f) ELSE NaN

(***************************************************************************)
(* Text: String.prototype.includes / toLowerCase and the regular           *)
(* expressions of processUserInput, computed on the characters             *)
(***************************************************************************)
CharAt(s, i) == SubSeq(s, i, i)

\* s.slice(i - 1): the rest of s from position i on
From(s, i) == SubSeq(s, i, Len(s))

\* s.startsWith(k)
StartsWith(s, k) == Len(k) <= Len(s) /\ SubSeq(s, 1, Len(k)) = k

\* s.includes(k)
Includes(s, k) == \E i \in 1..(Len(s) - Len(k) + 1) : SubSeq(s, i, i + Len(k) - 1) = k

UpperCase == "ABCDEFGHIJKLMNOPQRSTUVWXYZ"

LowerCase == "abcdefghijklmnopqrstuvwxyz"

LowerChar(c) ==
  IF \E i \in 1..Len(UpperCase) : CharAt(UpperCase, i) = c
  THEN CharAt(LowerCase, CHOOSE i \in 1..Len(UpperCase) : CharAt(UpperCase, i) = c)
  ELSE c

\* s.toLowerCase()
RECURSIVE ToLower(_)
ToLower(s) == IF s = "" THEN "" ELSE LowerChar(CharAt(s, 1)) \o ToLower(From(s, 2))

DigitChars == "0123456789"

IsDigit(c) == \E i \in 1..Len(DigitChars) : CharAt(DigitChars, i) = c

DigitVal(c) == (CHOOSE i \in 1..Len(DigitChars) : CharAt(DigitChars, i) = c) - 1

\* \s of the regular expressions (the whitespace the messages use)
IsSpace(c) == c = " "

\* end of the run of digits that starts at position i (i - 1 when s[i] is no digit)
RECURSIVE DigitsEnd(_, _)
DigitsEnd(s, i) ==
  IF i <= Len(s) /\ IsDigit(CharAt(s, i)) THEN DigitsEnd(s, i + 1) ELSE i - 1

\* first position at or after i that is not whitespace
RECURSIVE SkipSpaces(_, _)
SkipSpaces(s, i) ==
  IF i <= Len(s) /\ IsSpace(CharAt(s, i)) THEN SkipSpaces(s, i + 1) ELSE i

\* parseInt of a string of digits
RECURSIVE ParseDigits(_)
ParseDigits(t) ==
  IF t = "" THEN 0 ELSE 10 * ParseDigits(SubSeq(t, 1, Len(t) - 1)) + DigitVal(CharAt(t, Len(t)))

RECURSIVE Pow10(_)
Pow10(k) == IF k = 0 THEN 1 ELSE 10 * Pow10(k - 1)

\* parseInt(t) for t matched by \d+
ParseInt(t) == Num(ParseDigits(t))

\* parseFloat(t) for t matched by \d+(\.\d+)?
ParseFloat(t) ==
  LET e == DigitsEnd(t, 1)
  IN  IF e = Len(t) THEN Num(ParseDigits(t))
      ELSE Add(Num(ParseDigits(SubSeq(t, 1, e))),
               Rat(ParseDigits(From(t, e + 2)), Pow10(Len(t) - e - 1)))

\* positions where a match of \d+ can start
DigitStarts(s) == {i \in 1..Len(s) : IsDigit(CharAt(s, i))}

Min(S) == CHOOSE x \in S : \A y \in S : x <= y

\* end of the match of \d+(?:\.\d+)? that starts at i (greedy)
DecimalEnd(s, i) ==
  LET e == DigitsEnd(s, i)
  IN  IF e + 2 <= Len(s) /\ CharAt(s, e + 1) = "." /\ IsDigit(CharAt(s, e + 2))
      THEN DigitsEnd(s, e + 2) ELSE e

\* s.match(/\d+/): the first run of digits, or undefined
MatchDigits(s) ==
  IF DigitStarts(s) = {} THEN Undefined
  ELSE LET i == Min(DigitStarts(s)) IN Some(SubSeq(s, i, DigitsEnd(s, i)))

\* s.match(/\d+(\.\d+)?/): the first decimal number, or undefined
MatchDecimal(s) ==
  IF DigitStarts(s) = {} THEN Undefined
  ELSE LET i == Min(DigitStarts(s)) IN Some(SubSeq(s, i, DecimalEnd(s, i)))

\* /(\d+)\s*(?:...)/ : group 1 of the leftmost match; Follows(t) says that the
\* alternation matches at the start of t. The digits run up to the optional whitespace
DigitsBefore(s, Follows(_)) ==
  LET hits == {i \in DigitStarts(s) : Follows(From(s, SkipSpaces(s, DigitsEnd(s, i) + 1)))}
  IN  IF hits = {} THEN Undefined
      ELSE LET i == Min(hits) IN Some(SubSeq(s, i, DigitsEnd(s, i)))

\* /(\d+(?:\.\d+)?)\s*(?:...)/ : group 1 of the leftmost match: the decimal number,
\* or its integer part alone when only that is followed by the alternation
DecimalBefore(s, Follows(_)) ==
  LET after(e) == Follows(From(s, SkipSpaces(s, e + 1)))
      hits     == {i \in DigitStarts(s) : after(DecimalEnd(s, i)) \/ after(DigitsEnd(s, i))}
  IN  IF hits = {} THEN Undefined
      ELSE LET i == Min(hits)
               e == IF after(DecimalEnd(s, i)) THEN DecimalEnd(s, i) ELSE DigitsEnd(s, i)
           IN  Some(SubSeq(s, i, e))

\* /(\d+).*?(?:w1|w2)/ : group 1 of the leftmost match: the first run of digits,
\* provided one of the words (which hold no digit) occurs somewhere after it
DigitsThenWord(s, words) ==
  LET i0 == IF DigitStarts(s) = {} THEN 0 ELSE Min(DigitStarts(s))
      e  == DigitsEnd(s, i0)
  IN  IF i0 = 0 \/ ~\E w \in words : Includes(From(s, e + 1), w) THEN Undefined
      ELSE Some(SubSeq(s, i0, e))

\* /(\d+(?:\.\d+)?).*?(?:w1|w2)/ : group 1 of the leftmost match: the first decimal
\* number, provided one of the words (no digit, no point) occurs somewhere after it
DecimalThenWord(s, words) ==
  LET i0 == IF DigitStarts(s) = {} THEN 0 ELSE Min(DigitStarts(s))
      e  == DecimalEnd(s, i0)
  IN  IF i0 = 0 \/ ~\E w \in words : Includes(From(s, e + 1), w) THEN Undefined
      ELSE Some(SubSeq(s, i0, e))

\* (?:gallons?(?:\s*per\s*day)?|gpd) at the start of t
GpdTail(t) == StartsWith(t, "gallon") \/ StartsWith(t, "gpd")

\* (?:(?:ft|feet)(?:\s*(?:head|lift|tdh))?|total\s*(?:dynamic\s*)?head|tdh) at the start of t
HeadTail(t) ==
  \/ StartsWith(t, "ft")
  \/ StartsWith(t, "feet")
  \/ StartsWith(t, "tdh")
  \/ /\ StartsWith(t, "total")
     /\ LET u == From(t, SkipSpaces(t, Len("total") + 1))
        IN  \/ StartsWith(u, "head")
            \/ /\ StartsWith(u, "dynamic")
               /\ StartsWith(From(u, SkipSpaces(u, Len("dynamic") + 1)), "head")

\* /(\d+)\s*bath/i
BathTail(t) == StartsWith(t, "bath")

\* /(\d+(?:\.\d+)?)\s*(?:acre|ac|acres)/i
AcreTail(t) == StartsWith(t, "acre") \/ StartsWith(t, "ac") \/ StartsWith(t, "acres")

(***************************************************************************)
(* pumpData.js: the catalog and the curve-based selector                   *)
(***************************************************************************)
\* one point { head, flowRate } of a curve, written in tenths: 12.5 ft is 125 and
\* 5.0 GPM is 50
Pt(head10, flow10) == [head |-> Rat(head10, 10), flowRate |-> Rat(flow10, 10)]

Pump1S ==
  [ model |-> "1S48V50C", stages |-> 1, voltage |-> 48,
    flowRateByHead |-> << Pt(0, 50), Pt(125, 50), Pt(225, 40), Pt(300, 30), Pt(375, 20), Pt(400, 10) >>,
    maxFlow |-> Rat(50, 10), maxHead |-> Num(40), powerRequired |-> 53 ]

Pump2S ==
  [ model |-> "2S48V50C", stages |-> 2, voltage |-> 48,
    flowRateByHead |-> << Pt(0, 50), Pt(250, 50), Pt(450, 40), Pt(600, 30), Pt(750, 20), Pt(800, 10) >>,
    maxFlow |-> Rat(50, 10), maxHead |-> Num(80), powerRequired |-> 106 ]

Pump3S ==
  [ model |-> "3S48V50C", stages |-> 3, voltage |-> 48,
    flowRateByHead |-> << Pt(0, 50), Pt(375, 50), Pt(675, 40), Pt(900, 30), Pt(1125, 20), Pt(1200, 10) >>,
    maxFlow |-> Rat(50, 10), maxHead |-> Num(120), powerRequired |-> 159 ]

Pump4S ==
  [ model |-> "4S48V50C", stages |-> 4, voltage |-> 48,
    flowRateByHead |-> << Pt(0, 50), Pt(500, 50), Pt(900, 40), Pt(1200, 30), Pt(1500, 20), Pt(1600, 10) >>,
    maxFlow |-> Rat(50, 10), maxHead |-> Num(160), powerRequired |-> 212 ]

Pump5S ==
  [ model |-> "5S48V50C", stages |-> 5, voltage |-> 48,
    flowRateByHead |-> << Pt(0, 50), Pt(625, 50), Pt(1125, 40), Pt(1500, 30), Pt(1875, 20), Pt(2000, 10) >>,
    maxFlow |-> Rat(50, 10), maxHead |-> Num(200), powerRequired |-> 265 ]

Pump6S ==
  [ model |-> "6S48V50C", stages |-> 6, voltage |-> 48,
    flowRateByHead |-> << Pt(0, 50), Pt(750, 50), Pt(1350, 40), Pt(1800, 30), Pt(2250, 20), Pt(2400, 10) >>,
    maxFlow |-> Rat(50, 10), maxHead |-> Num(240), powerRequired |-> 318 ]

\* the catalog, were the second point of the first curve at head 0 as the first is
pumpDataRepeatedHead ==
  << [Pump1S EXCEPT !.flowRateByHead[2] = Pt(0, 50)], Pump2S, Pump3S, Pump4S, Pump5S, Pump6S >>

\* Object.entries(pumpData) inside pumpData.js: the six models in insertion order
pumpData == << Pump1S, Pump2S, Pump3S, Pump4S, Pump5S, Pump6S >>

\* the flow between two consecutive points, were it taken at the first of them
InterpolateAtFirstPoint(point1, point2, requiredHead) == point1.flowRate

\* the linear interpolation between two consecutive points of a curve
Interpolate(point1, point2, requiredHead) ==
  LET slope == Div(Sub(point2.flowRate, point1.flowRate), Sub(point2.head, point1.head))
  IN  Add(point1.flowRate, Mul(slope, Sub(requiredHead, point1.head)))

\* the inner loop: the flow at the first pair of points that brackets the head, from
\* pair i on; 0 when no pair does
RECURSIVE CurveLoop(_, _, _)
CurveLoop(points, requiredHead, i) ==
  IF i > Len(points) - 1 THEN Num(0)
  ELSE IF Geq(requiredHead, points[i].head) /\ Leq(requiredHead, points[i + 1].head)
       THEN Interpolate(points[i], points[i + 1], requiredHead)
       ELSE CurveLoop(points, requiredHead, i + 1)

\* actualFlowRate of one model at the required head
ActualFlowRate(data, requiredHead) == CurveLoop(data.flowRateByHead, requiredHead, 1)

\* the outer loop: suitablePumps, in catalog order
RECURSIVE SuitableLoop(_, _, _, _)
SuitableLoop(entries, requiredGPM, requiredHead, i) ==
  IF i > Len(entries) THEN <<>>
  ELSE LET data == entries[i]
           rest == SuitableLoop(entries, requiredGPM, requiredHead, i + 1)
           flow == ActualFlowRate(data, requiredHead)
       IN  IF Gt(requiredHead, data.maxHead) THEN rest
           ELSE IF Geq(flow, requiredGPM)
                THEN << [ model |-> data.model, stages |-> data.stages,
                          flowRate |-> flow, powerRequired |-> data.powerRequired ] >> \o rest
                ELSE rest

SuitablePumps(requiredGPM, requiredHead) == SuitableLoop(pumpData, requiredGPM, requiredHead, 1)

\* Array.prototype.sort((a, b) => a.stages - b.stages): a stable sort
RECURSIVE InsertByStages(_, _)
InsertByStages(sorted, p) ==
  IF sorted = <<>> THEN <<p>>
  ELSE IF p.stages < sorted[1].stages THEN <<p>> \o sorted
       ELSE <<sorted[1]>> \o InsertByStages(Tail(sorted), p)

RECURSIVE SortByStages(_)
SortByStages(pumps) ==
  IF pumps = <<>> THEN <<>>
  ELSE InsertByStages(SortByStages(SubSeq(pumps, 1, Len(pumps) - 1)), pumps[Len(pumps)])

\* findSuitablePump, were it to return the last element of the sorted list
findLargestSuitablePump(requiredGPM, requiredHead) ==
  LET sorted == SortByStages(SuitablePumps(requiredGPM, requiredHead))
  IN  IF sorted = <<>> THEN Undefined ELSE Some(sorted[Len(sorted)])

\* findSuitablePump(requiredGPM, requiredHead): element [0] of the sorted list, or undefined
findSuitablePump(requiredGPM, requiredHead) ==
  LET sorted == SortByStages(SuitablePumps(requiredGPM, requiredHead))
  IN  IF sorted = <<>> THEN Undefined ELSE Some(sorted[1])

(***************************************************************************)
(* The server module: constants                                            *)
(***************************************************************************)
\* livestockWaterNeeds[type].summer, gallons per day per head
livestockWaterNeeds ==
  [ beef |-> Num(22), dairy |-> Num(32), horses |-> Rat(135, 10), goats |-> Num(4), sheep |-> Num(4) ]

\* householdWaterNeeds, gallons per day
householdWaterNeeds ==
  [ person |-> Num(80), bathroom |-> Num(100), kitchen |-> Num(50), laundry |-> Num(30),
    garden_small |-> Num(100), garden_medium |-> Num(300), garden_large |-> Num(600) ]

\* irrigationWaterNeeds: gallons per day per acre, and the crop multipliers
irrigationWaterNeeds ==
  [ drip |-> Num(600), sprinkler |-> Num(1200), flood |-> Num(2400),
    vegetables |-> Rat(12, 10), fruits |-> Rat(10, 10), lawn |-> Rat(15, 10) ]

\* (the key OTHER is written USAGE_TYPES["OTHER"]: the word is reserved in TLA+)
USAGE_TYPES ==
  [ UNKNOWN |-> "unknown", LIVESTOCK |-> "livestock", HOUSEHOLD |-> "household",
    IRRIGATION |-> "irrigation" ] @@ ("OTHER" :> "other")

STAGES ==
  [ GREETING |-> "greeting", USAGE_TYPE |-> "usage_type", LOCATION |-> "location",
    LIVESTOCK_TYPE |-> "livestock_type", ANIMAL_COUNT |-> "animal_count",
    PEOPLE_COUNT |-> "people_count", FIXTURES_COUNT |-> "fixtures_count",
    IRRIGATION_AREA |-> "irrigation_area", IRRIGATION_TYPE |-> "irrigation_type",
    CROP_TYPE |-> "crop_type",
    WELL_DEPTH |-> "well_depth", STATIC_WATER |-> "static_water", DRAWDOWN |-> "drawdown",
    ELEVATION |-> "elevation", PIPE_INFO |-> "pipe_info", STORAGE_TANK |-> "storage_tank",
    WATER_QUALITY |-> "water_quality", WELL_CASING |-> "well_casing", SUMMARY |-> "summary",
    RECOMMENDATION |-> "recommendation",
    CUSTOM_FLOW |-> "custom_flow", CUSTOM_HEAD |-> "custom_head" ]

\* the values of STAGES
StageNames == {STAGES[k] : k \in DOMAIN STAGES}

\* session.data of a fresh session (getOrCreateSession); the fields the code adds later
\* are undefined
NewData ==
  [ usageType |-> USAGE_TYPES.UNKNOWN, sarcasticLevel |-> 0,
    customGPD |-> Undefined, customHead |-> Undefined, location |-> Undefined,
    livestockType |-> Undefined, animalCount |-> Undefined,
    peopleCount |-> Undefined, fixturesInfo |-> Undefined, bathroomCount |-> Undefined,
    irrigationArea |-> Undefined, irrigationType |-> Undefined, irrigationMethod |-> Undefined,
    cropType |-> Undefined, cropCategory |-> Undefined,
    wellDepth |-> Undefined, staticWaterLevel |-> Undefined, drawdownLevel |-> Undefined,
    drawdownEstimated |-> Undefined, elevationGain |-> Undefined,
    directToStockTank |-> Undefined, pipeLength |-> Undefined, pipeSize |-> Undefined,
    hasStorageTank |-> Undefined, sandyWater |-> Undefined, wellCasingSize |-> Undefined,
    recommendation |-> Undefined ]

(***************************************************************************)
(* The server module: what require('./pumpData') gives it                  *)
(***************************************************************************)
\* the object pumpData of pumpData.js, by model name
CatalogObject ==
  ("1S48V50C" :> Pump1S) @@ ("2S48V50C" :> Pump2S) @@ ("3S48V50C" :> Pump3S) @@
  ("4S48V50C" :> Pump4S) @@ ("5S48V50C" :> Pump5S) @@ ("6S48V50C" :> Pump6S)

\* the own enumerable properties of a function object: none
FunctionObject == [ k \in {} |-> Undefined ]

\* module.exports of pumpData.js
ModuleExports == [ pumpData |-> CatalogObject, findSuitablePump |-> FunctionObject ]

\* const pumpData = require('./pumpData') in the server module: the exports object
serverPumpData == ModuleExports

\* Object.entries(pumpData) in the server module: its keys in insertion order
ServerEntries == << "pumpData", "findSuitablePump" >>

\* obj.key: undefined when the object has no such property
Prop(obj, key) == IF key \in DOMAIN obj THEN Some(obj[key]) ELSE Undefined

(***************************************************************************)
(* The server module: the calculators                                      *)
(***************************************************************************)
\* calculateFrictionLoss(flowRate, pipeLength, pipeSize)
calculateFrictionLoss(flowRate, pipeLength, pipeSize) ==
  LET frictionFactor == Rat(2, 100)
  IN  Mul(Mul(frictionFactor, Div(pipeLength, pipeSize)), Mul(flowRate, flowRate))

\* data.<text> && data.<text>.toLowerCase().includes(word)
Mentions(text, word) == TruthyStr(text) /\ Includes(ToLower(Val(text)), word)

\* the species, were horse looked for before dairy
LivestockKindHorseFirst(data) ==
  IF Mentions(data.livestockType, "horse") THEN "horses"
  ELSE IF Mentions(data.livestockType, "dairy") THEN "dairy"
  ELSE IF Mentions(data.livestockType, "goat") THEN "goats"
  ELSE IF Mentions(data.livestockType, "sheep") THEN "sheep"
  ELSE "beef"

\* the species resolved from data.livestockType
LivestockKind(data) ==
  IF Mentions(data.livestockType, "dairy") THEN "dairy"
  ELSE IF Mentions(data.livestockType, "horse") THEN "horses"
  ELSE IF Mentions(data.livestockType, "goat") THEN "goats"
  ELSE IF Mentions(data.livestockType, "sheep") THEN "sheep"
  ELSE "beef"

\* the household branch, were a medium garden looked for before a large one
HouseholdGallonsMediumFirst(data) ==
  LET people   == Mul(OrZero(data.peopleCount), householdWaterNeeds.person)
      bathroom == IF TruthyNum(data.bathroomCount)
                  THEN Mul(Val(data.bathroomCount), householdWaterNeeds.bathroom) ELSE Num(0)
      kitchen  == IF Mentions(data.fixturesInfo, "kitchen") THEN householdWaterNeeds.kitchen ELSE Num(0)
      laundry  == IF Mentions(data.fixturesInfo, "laundry") THEN householdWaterNeeds.laundry ELSE Num(0)
      garden   == IF Mentions(data.fixturesInfo, "garden")
                  THEN IF Mentions(data.fixturesInfo, "medium") THEN householdWaterNeeds.garden_medium
                       ELSE IF Mentions(data.fixturesInfo, "large") THEN householdWaterNeeds.garden_large
                       ELSE householdWaterNeeds.garden_small
                  ELSE Num(0)
  IN  Add(Add(Add(Add(people, bathroom), kitchen), laundry), garden)

\* the household branch of calculateWaterRequirements
HouseholdGallons(data) ==
  LET people   == Mul(OrZero(data.peopleCount), householdWaterNeeds.person)
      bathroom == IF TruthyNum(data.bathroomCount)
                  THEN Mul(Val(data.bathroomCount), householdWaterNeeds.bathroom) ELSE Num(0)
      kitchen  == IF Mentions(data.fixturesInfo, "kitchen") THEN householdWaterNeeds.kitchen ELSE Num(0)
      laundry  == IF Mentions(data.fixturesInfo, "laundry") THEN householdWaterNeeds.laundry ELSE Num(0)
      garden   == IF Mentions(data.fixturesInfo, "garden")
                  THEN IF Mentions(data.fixturesInfo, "large") THEN householdWaterNeeds.garden_large
                       ELSE IF Mentions(data.fixturesInfo, "medium") THEN householdWaterNeeds.garden_medium
                       ELSE householdWaterNeeds.garden_small
                  ELSE Num(0)
  IN  Add(Add(Add(Add(people, bathroom), kitchen), laundry), garden)

\* the irrigation branch of calculateWaterRequirements
IrrigationGallons(data) ==
  LET baseRate == IF data.irrigationMethod = Some("drip") THEN irrigationWaterNeeds.drip
                  ELSE IF data.irrigationMethod = Some("flood") THEN irrigationWaterNeeds.flood
                  ELSE irrigationWaterNeeds.sprinkler
      cropMultiplier == IF data.cropCategory = Some("vegetables") THEN irrigationWaterNeeds.vegetables
                        ELSE IF data.cropCategory = Some("fruits") THEN irrigationWaterNeeds.fruits
                        ELSE IF data.cropCategory = Some("lawn") THEN irrigationWaterNeeds.lawn
                        ELSE Num(1)
      area == IF TruthyNum(data.irrigationArea) THEN Val(data.irrigationArea) ELSE Num(1)
  IN  Mul(Mul(baseRate, area), cropMultiplier)

\* dailyGallons, were the usage-specific computation to come before customGPD
DailyGallonsUsageFirst(data) ==
  IF data.usageType = USAGE_TYPES.LIVESTOCK
  THEN Mul(livestockWaterNeeds[LivestockKind(data)], OrZero(data.animalCount))
  ELSE IF data.usageType = USAGE_TYPES.HOUSEHOLD THEN HouseholdGallons(data)
  ELSE IF data.usageType = USAGE_TYPES.IRRIGATION THEN IrrigationGallons(data)
  ELSE IF TruthyNum(data.customGPD) THEN Val(data.customGPD)
  ELSE Num(500)

\* dailyGallons of calculateWaterRequirements
DailyGallons(data) ==
  IF TruthyNum(data.customGPD) THEN Val(data.customGPD)
  ELSE IF data.usageType = USAGE_TYPES.LIVESTOCK
       THEN Mul(livestockWaterNeeds[LivestockKind(data)], OrZero(data.animalCount))
  ELSE IF data.usageType = USAGE_TYPES.HOUSEHOLD THEN HouseholdGallons(data)
  ELSE IF data.usageType = USAGE_TYPES.IRRIGATION THEN IrrigationGallons(data)
  ELSE Num(500)

peakSunHours == Rat(54, 10)

\* what calculateWaterRequirements returns for the dailyGallons it computed
WaterRequirements(dailyGallons) ==
  [ dailyGallons |-> dailyGallons,
    requiredGPM  |-> Div(dailyGallons, Mul(peakSunHours, Num(60))),
    peakSunHours |-> peakSunHours ]

\* calculateWaterRequirements(data)
calculateWaterRequirements(data) == WaterRequirements(DailyGallons(data))

\* staticWaterLevel + drawdownLevel + elevationGain, each || 0
StaticLift(data) ==
  Add(Add(OrZero(data.staticWaterLevel), OrZero(data.drawdownLevel)), OrZero(data.elevationGain))

\* the total dynamic head, were the friction loss left out
TotalDynamicHeadWithoutFriction(data, waterReq) ==
  IF TruthyNum(data.customHead) THEN Val(data.customHead) ELSE StaticLift(data)

\* the total dynamic head calculateRecommendation computes, waterReq being computed
TotalDynamicHead(data, waterReq) ==
  IF TruthyNum(data.customHead) THEN Val(data.customHead)
  ELSE IF TruthyNum(data.pipeLength) /\ TruthyNum(data.pipeSize)
       THEN Add(StaticLift(data),
                calculateFrictionLoss(waterReq.requiredGPM, Val(data.pipeLength), Val(data.pipeSize)))
       ELSE StaticLift(data)

SandyWaterMessage ==
  "Your water has too much sand for our solar pumps. You might want to consider contacting us directly for alternatives."

CasingMessage ==
  "Our pumps require a well casing of 5 inches or larger. Your well casing is too small for our pumps. Please contact us for assistance."

NoPumpMessage ==
  "Based on your requirements, we don't have a standard pump that meets your needs. Please contact us directly for a custom solution."

\* specs.maxFlow >= requiredGPM && specs.maxHead >= tdh, for one entry of the loop
FlatSuitable(specs, requiredGPM, tdh) ==
  /\ Geq(ToNumber(Prop(specs, "maxFlow")), requiredGPM)
  /\ Geq(ToNumber(Prop(specs, "maxHead")), tdh)

\* the body of the selection loop for one entry [model, specs]; selected is
\* [selectedPump, pumpStages], undefined while selectedPump is null
Consider(model, specs, requiredGPM, tdh, selected) ==
  IF /\ FlatSuitable(specs, requiredGPM, tdh)
     /\ (~IsDef(selected) \/ specs.stages < Val(selected).pumpStages)
  THEN Some([selectedPump |-> model, pumpStages |-> specs.stages])
  ELSE selected

\* the selection loop of calculateRecommendation over Object.entries(pumpData), from
\* entry i on
RECURSIVE SelectLoop(_, _, _, _)
SelectLoop(requiredGPM, tdh, i, selected) ==
  IF i > Len(ServerEntries) THEN selected
  ELSE SelectLoop(requiredGPM, tdh, i + 1,
                  Consider(ServerEntries[i], serverPumpData[ServerEntries[i]],
                           requiredGPM, tdh, selected))

\* the panel arithmetic, were the number of panels not raised to an even one
SolarPanelsUnpaired(pumpStages) ==
  [ powerRequired |-> pumpStages * 53, panelsRequired |-> Ceil(Rat(pumpStages * 53, 100)),
    voltage |-> 48, wattage |-> Ceil(Rat(pumpStages * 53, 100)) * 100 ]

\* the panel arithmetic of calculateRecommendation for the selected number of stages
SolarPanels(pumpStages) ==
  LET powerRequired  == pumpStages * 53
      panelsNeeded   == Ceil(Rat(powerRequired, 100))
      adjustedPanels == IF panelsNeeded % 2 = 0 THEN panelsNeeded ELSE panelsNeeded + 1
  IN  [ powerRequired |-> powerRequired, panelsRequired |-> adjustedPanels,
        voltage |-> 48, wattage |-> adjustedPanels * 100 ]

\* the sandy-water check, were it left out
IsSandyIgnored(data) == FALSE

\* if (data.sandyWater)
IsSandy(data) == TruthyBool(data.sandyWater)

\* if (data.wellCasingSize && data.wellCasingSize < 5)
CasingTooSmall(data) ==
  TruthyNum(data.wellCasingSize) /\ Lt(Val(data.wellCasingSize), Num(5))

\* the object calculateRecommendation returns for the selected model, its specs and
\* its panels; the numbers are kept as numbers (the source formats requiredGPM, tdh and
\* dailyOutput with toFixed) and the description and the formatted summary are left out
Sized(waterReq, tdh, selected, specs, solar) ==
  [ isValid |-> TRUE,
    waterRequirements |-> [ dailyGallons |-> waterReq.dailyGallons,
                            requiredGPM |-> waterReq.requiredGPM ],
    pumpDetails |-> [ model |-> selected.selectedPump, stages |-> selected.pumpStages,
                      maxFlow |-> specs.maxFlow, maxHead |-> specs.maxHead ],
    system |-> [ tdh |-> tdh, peakSunHours |-> waterReq.peakSunHours,
                 panelsRequired |-> solar.panelsRequired,
                 dailyOutput |-> Mul(specs.maxFlow, Mul(waterReq.peakSunHours, Num(60))) ],
    solarConfig |-> [ voltage |-> solar.voltage, wattage |-> solar.wattage ] ]

\* the object calculateRecommendation returns once waterReq, tdh and the selection
\* are computed
Recommendation(data, waterReq, tdh, selected) ==
  IF IsSandy(data)
  THEN [ isValid |-> FALSE, message |-> SandyWaterMessage ]
  ELSE IF CasingTooSmall(data)
  THEN [ isValid |-> FALSE, message |-> CasingMessage ]
  ELSE IF ~IsDef(selected)
  THEN [ isValid |-> FALSE, message |-> NoPumpMessage ]
  ELSE Sized(waterReq, tdh, Val(selected), serverPumpData[Val(selected).selectedPump],
             SolarPanels(Val(selected).pumpStages))

\* the selection of calculateRecommendation for a required flow and head
SelectPump(requiredGPM, tdh) == SelectLoop(requiredGPM, tdh, 1, Undefined)

\* calculateRecommendation with waterReq and tdh computed
RecommendFor(data, waterReq, tdh) ==
  Recommendation(data, waterReq, tdh, SelectPump(waterReq.requiredGPM, tdh))

\* calculateRecommendation with waterReq computed
RecommendWith(data, waterReq) == RecommendFor(data, waterReq, TotalDynamicHead(data, waterReq))

\* calculateRecommendation(data)
calculateRecommendation(data) == RecommendWith(data, calculateWaterRequirements(data))

(***************************************************************************)
(* The messages a user sends                                               *)
(***************************************************************************)
\* plain text: no number, no word the code looks for
TextMessages == { "Texas" }

\* the daily flow, stated with its unit
FlowMessages == { "50 gpd", "0 gpd" }

\* the head, stated with its unit
HeadMessages == { "80 ft" }

\* a bare number
NumberMessages == { "100" }

\* answers to the questions about what the water is for
UsageMessages == { "cattle", "My house", "crop irrigation" }

\* answers to the elevation, pipe, water-quality and casing questions
ElevationMessages == { "directly", "To a stock tank" }

PipeMessages == { "4 inch" }

QualityMessages == { "sand" }

CasingMessages == { "4 inch" }

\* replies to the summary: confirmations, and what to correct
SummaryMessages ==
  { "yes", "Correct", "right", "looks good", "good",
    "location", "livestock", "animal", "people", "house", "irrigation", "crop",
    "well", "static", "drawdown", "elevation", "pipe", "tank", "quality", "sand", "casing",
    "well pipe", "casing location", "house well" }

Messages ==
  UNION { TextMessages, FlowMessages, HeadMessages, NumberMessages, UsageMessages,
          ElevationMessages, PipeMessages, QualityMessages, CasingMessages, SummaryMessages }

\* the words processUserInput and adjustSarcasticLevel look for with includes()
Keywords ==
  { "livestock", "cattle", "cow", "horse", "sheep", "goat",
    "house", "home", "domestic", "drinking", "shower", "toilet",
    "irrigation", "crop", "garden", "farm", "field", "acre",
    "drip", "sprinkl", "flood", "veget", "fruit", "lawn", "grass",
    "stock tank", "directly", "no", "sand", "sediment",
    "yes", "correct", "right", "look", "good",
    "location", "animal", "people", "well", "static", "drawdown", "elevation",
    "pipe", "tank", "quality", "casing",
    "funny", "lol", "haha", "lmao", "hey", "yo", "sup", "thanks", "cool",
    "please help", "serious", "frustrated", "not helpful", "confused" }

\* message.toLowerCase(), for every message
LowerMessage == [ m \in Messages |-> ToLower(m) ]

\* the keywords each lower-cased message includes
KeywordsIn == [ m \in Messages |-> { w \in Keywords : Includes(LowerMessage[m], w) } ]

\* lowerMessage.includes(word)
Has(message, word) ==
  IF message \in Messages /\ word \in Keywords THEN word \in KeywordsIn[message]
  ELSE Includes(ToLower(message), word)

\* The matches of the regular expressions of processUserInput, for every message.
\* lowerMessage.match(/(\d+)\s*(?:gallons?(?:\s*per\s*day)?|gpd)/i)
GpdMatches == [ m \in Messages |-> DigitsBefore(LowerMessage[m], GpdTail) ]

gpdMatch(message) == GpdMatches[message]

\* lowerMessage.match(/(\d+)\s*(?:(?:ft|feet)(?:\s*(?:head|lift|tdh))?|total\s*(?:dynamic\s*)?head|tdh)/i)
HeadMatches == [ m \in Messages |-> DigitsBefore(LowerMessage[m], HeadTail) ]

headMatch(message) == HeadMatches[message]

\* message.match(/\d+/)
NumMatches == [ m \in Messages |-> MatchDigits(m) ]

numMatch(message) == NumMatches[message]

\* message.match(/\d+(\.\d+)?/)
DepthMatches == [ m \in Messages |-> MatchDecimal(m) ]

depthMatch(message) == DepthMatches[message]

\* message.match(/(\d+)\s*bath/i)
BathroomMatches == [ m \in Messages |-> DigitsBefore(LowerMessage[m], BathTail) ]

bathroomMatch(message) == BathroomMatches[message]

\* message.match(/(\d+(?:\.\d+)?)\s*(?:acre|ac|acres)/i)
AreaMatches == [ m \in Messages |-> DecimalBefore(LowerMessage[m], AcreTail) ]

areaMatch(message) == AreaMatches[message]

\* message.match(/(\d+).*?(?:feet|ft)/i)
LengthMatches == [ m \in Messages |-> DigitsThenWord(LowerMessage[m], {"feet", "ft"}) ]

lengthMatch(message) == LengthMatches[message]

\* message.match(/(\d+(?:\.\d+)?).*?(?:inch|in|")/i)
SizeMatches == [ m \in Messages |-> DecimalThenWord(LowerMessage[m], {"inch", "in", "\""}) ]

sizeMatch(message) == SizeMatches[message]

\* match ? parseInt(match[..]) : 0
IntOrZero(match) == IF IsDef(match) THEN ParseInt(Val(match)) ELSE Num(0)

\* match ? parseFloat(match[..]) : 0
FloatOrZero(match) == IF IsDef(match) THEN ParseFloat(Val(match)) ELSE Num(0)

(***************************************************************************)
(* processUserInput(session, message)                                      *)
(***************************************************************************)
HasAny(message, words) == \E w \in words : Has(message, w)

\* the two extractions that run at every stage: customGPD and customHead
\* if (gpdMatch && !session.data.customGPD)
ExtractGPD(data, message) ==
  IF IsDef(gpdMatch(message)) /\ ~TruthyNum(data.customGPD)
  THEN [data EXCEPT !.customGPD = Some(ParseInt(Val(gpdMatch(message))))]
  ELSE data

\* if (headMatch && !session.data.customHead)
ExtractHead(data, message) ==
  IF IsDef(headMatch(message)) /\ ~TruthyNum(data.customHead)
  THEN [data EXCEPT !.customHead = Some(ParseInt(Val(headMatch(message))))]
  ELSE data

ExtractCustom(data, message) == ExtractHead(ExtractGPD(data, message), message)

\* explicit usage type mentions, looked for at GREETING and USAGE_TYPE
MentionedUsage(currentStage, data, message) ==
  IF currentStage \notin {STAGES.GREETING, STAGES.USAGE_TYPE} THEN data
  ELSE IF HasAny(message, {"livestock", "cattle", "cow", "horse", "sheep", "goat"})
       THEN [data EXCEPT !.usageType = USAGE_TYPES.LIVESTOCK]
  ELSE IF HasAny(message, {"house", "home", "domestic", "drinking", "shower", "toilet"})
       THEN [data EXCEPT !.usageType = USAGE_TYPES.HOUSEHOLD]
  ELSE IF HasAny(message, {"irrigation", "crop", "garden", "farm", "field", "acre"})
       THEN [data EXCEPT !.usageType = USAGE_TYPES.IRRIGATION]
  ELSE data

\* the condition of the skip, were it not to look at the stage
CustomSkipAtAnyStage(currentStage, data) ==
  TruthyNum(data.customGPD) /\ TruthyNum(data.customHead)

\* the condition of the custom flow/head skip
CustomSkip(currentStage, data) ==
  /\ TruthyNum(data.customGPD)
  /\ TruthyNum(data.customHead)
  /\ currentStage # STAGES.SUMMARY
  /\ currentStage # STAGES.RECOMMENDATION

\* case STAGES.USAGE_TYPE
UsageTypeCase(session, message) ==
  LET data == session.data
  IN  IF data.usageType # USAGE_TYPES.UNKNOWN
      THEN [session EXCEPT !.currentStage = STAGES.LOCATION]
      ELSE IF HasAny(message, {"livestock", "cattle", "cow", "horse", "sheep", "goat"})
           THEN [session EXCEPT !.data.usageType = USAGE_TYPES.LIVESTOCK,
                                !.currentStage = STAGES.LOCATION]
      ELSE IF HasAny(message, {"house", "home", "domestic", "drinking"})
           THEN [session EXCEPT !.data.usageType = USAGE_TYPES.HOUSEHOLD,
                                !.currentStage = STAGES.LOCATION]
      ELSE IF HasAny(message, {"irrigation", "crop", "garden", "farm"})
           THEN [session EXCEPT !.data.usageType = USAGE_TYPES.IRRIGATION,
                                !.currentStage = STAGES.LOCATION]
      ELSE session

\* case STAGES.LOCATION
LocationCase(session, message) ==
  LET usageType == session.data.usageType
      next == IF usageType = USAGE_TYPES.LIVESTOCK THEN STAGES.LIVESTOCK_TYPE
              ELSE IF usageType = USAGE_TYPES.HOUSEHOLD THEN STAGES.PEOPLE_COUNT
              ELSE IF usageType = USAGE_TYPES.IRRIGATION THEN STAGES.IRRIGATION_AREA
              ELSE STAGES.CUSTOM_FLOW
  IN  [session EXCEPT !.data.location = Some(message), !.currentStage = next]

\* case STAGES.IRRIGATION_TYPE
IrrigationTypeCase(session, message) ==
  LET d1 == [session.data EXCEPT !.irrigationType = Some(message)]
      d2 == IF Has(message, "drip") THEN [d1 EXCEPT !.irrigationMethod = Some("drip")]
            ELSE IF Has(message, "sprinkl") THEN [d1 EXCEPT !.irrigationMethod = Some("sprinkler")]
            ELSE IF Has(message, "flood") THEN [d1 EXCEPT !.irrigationMethod = Some("flood")]
            ELSE d1
  IN  [session EXCEPT !.data = d2, !.currentStage = STAGES.CROP_TYPE]

\* case STAGES.CROP_TYPE
CropTypeCase(session, message) ==
  LET d1 == [session.data EXCEPT !.cropType = Some(message)]
      d2 == IF Has(message, "veget") THEN [d1 EXCEPT !.cropCategory = Some("vegetables")]
            ELSE IF Has(message, "fruit") THEN [d1 EXCEPT !.cropCategory = Some("fruits")]
            ELSE IF Has(message, "lawn") \/ Has(message, "grass")
                 THEN [d1 EXCEPT !.cropCategory = Some("lawn")]
            ELSE d1
  IN  [session EXCEPT !.data = d2, !.currentStage = STAGES.WELL_DEPTH]

\* case STAGES.DRAWDOWN, were a reply without a number recorded as 0
DrawdownCaseWithoutEstimate(session, message) ==
  [session EXCEPT !.data.drawdownLevel = Some(FloatOrZero(depthMatch(message))),
                  !.currentStage = STAGES.ELEVATION]

\* case STAGES.DRAWDOWN
DrawdownCase(session, message) ==
  LET data == session.data
      d1 == IF IsDef(depthMatch(message))
            THEN [data EXCEPT !.drawdownLevel = Some(ParseFloat(Val(depthMatch(message))))]
            ELSE [data EXCEPT !.drawdownLevel = Some(Mul(ToNumber(data.staticWaterLevel), Rat(1, 10))),
                              !.drawdownEstimated = Some(TRUE)]
  IN  [session EXCEPT !.data = d1, !.currentStage = STAGES.ELEVATION]

\* case STAGES.ELEVATION, were it to look for 'stock tank' alone
ElevationCaseStockTankOnly(session, message) ==
  LET d1 == [session.data EXCEPT !.elevationGain = Some(FloatOrZero(depthMatch(message)))]
  IN  IF Has(message, "stock tank")
      THEN [session EXCEPT !.data = [d1 EXCEPT !.directToStockTank = Some(TRUE)],
                           !.currentStage = STAGES.WATER_QUALITY]
      ELSE [session EXCEPT !.data = d1, !.currentStage = STAGES.PIPE_INFO]

\* case STAGES.ELEVATION
ElevationCase(session, message) ==
  LET d1 == [session.data EXCEPT !.elevationGain = Some(FloatOrZero(depthMatch(message)))]
  IN  IF Has(message, "stock tank") \/ Has(message, "directly")
      THEN [session EXCEPT !.data = [d1 EXCEPT !.directToStockTank = Some(TRUE)],
                           !.currentStage = STAGES.WATER_QUALITY]
      ELSE [session EXCEPT !.data = d1, !.currentStage = STAGES.PIPE_INFO]

\* case STAGES.PIPE_INFO
PipeInfoCase(session, message) ==
  LET data == session.data
      d1 == IF IsDef(lengthMatch(message))
            THEN [data EXCEPT !.pipeLength = Some(ParseFloat(Val(lengthMatch(message))))] ELSE data
      d2 == IF IsDef(sizeMatch(message))
            THEN [d1 EXCEPT !.pipeSize = Some(ParseFloat(Val(sizeMatch(message))))] ELSE d1
  IN  [session EXCEPT !.data = d2, !.currentStage = STAGES.STORAGE_TANK]

\* case STAGES.WELL_CASING, were it to go on to the recommendation without the summary
WellCasingCaseSkipsSummary(session, message) ==
  [session EXCEPT !.currentStage = STAGES.RECOMMENDATION]

\* case STAGES.WELL_CASING
WellCasingCase(session, message) ==
  LET data == session.data
      d1 == IF IsDef(sizeMatch(message))
            THEN [data EXCEPT !.wellCasingSize = Some(ParseFloat(Val(sizeMatch(message))))] ELSE data
  IN  [session EXCEPT !.data = d1, !.currentStage = STAGES.SUMMARY]

\* the stage a reply to the summary asks to correct; the summary itself when it names none
CorrectionTarget(data, message) ==
  IF Has(message, "location") THEN STAGES.LOCATION
  ELSE IF Has(message, "livestock") \/ Has(message, "animal")
       THEN IF data.usageType = USAGE_TYPES.LIVESTOCK THEN STAGES.LIVESTOCK_TYPE ELSE STAGES.SUMMARY
  ELSE IF Has(message, "people") \/ Has(message, "house")
       THEN IF data.usageType = USAGE_TYPES.HOUSEHOLD THEN STAGES.PEOPLE_COUNT ELSE STAGES.SUMMARY
  ELSE IF Has(message, "irrigation") \/ Has(message, "crop")
       THEN IF data.usageType = USAGE_TYPES.IRRIGATION THEN STAGES.IRRIGATION_AREA ELSE STAGES.SUMMARY
  ELSE IF Has(message, "well") THEN STAGES.WELL_DEPTH
  ELSE IF Has(message, "static") THEN STAGES.STATIC_WATER
  ELSE IF Has(message, "drawdown") THEN STAGES.DRAWDOWN
  ELSE IF Has(message, "elevation") THEN STAGES.ELEVATION
  ELSE IF Has(message, "pipe") THEN STAGES.PIPE_INFO
  ELSE IF Has(message, "tank") THEN STAGES.STORAGE_TANK
  ELSE IF Has(message, "quality") \/ Has(message, "sand") THEN STAGES.WATER_QUALITY
  ELSE IF Has(message, "casing") THEN STAGES.WELL_CASING
  ELSE STAGES.SUMMARY

\* the user confirms the summary
Confirms(message) ==
  \/ Has(message, "yes")
  \/ Has(message, "correct")
  \/ Has(message, "right")
  \/ (Has(message, "look") /\ Has(message, "good"))

\* case STAGES.SUMMARY
SummaryCase(session, message) ==
  IF Confirms(message) THEN [session EXCEPT !.currentStage = STAGES.RECOMMENDATION]
  ELSE [session EXCEPT !.currentStage = CorrectionTarget(session.data, message)]

\* switch (session.currentStage): the standard stage progression
StageSwitch(session, message) ==
  LET stage == session.currentStage
  IN  CASE stage = STAGES.GREETING -> [session EXCEPT !.currentStage = STAGES.USAGE_TYPE]
        [] stage = STAGES.USAGE_TYPE -> UsageTypeCase(session, message)
        [] stage = STAGES.LOCATION -> LocationCase(session, message)
        [] stage = STAGES.LIVESTOCK_TYPE ->
             [session EXCEPT !.data.livestockType = Some(message),
                             !.currentStage = STAGES.ANIMAL_COUNT]
        [] stage = STAGES.ANIMAL_COUNT ->
             [session EXCEPT !.data.animalCount = Some(IntOrZero(numMatch(message))),
                             !.currentStage = STAGES.WELL_DEPTH]
        [] stage = STAGES.PEOPLE_COUNT ->
             [session EXCEPT !.data.peopleCount = Some(IntOrZero(numMatch(message))),
                             !.currentStage = STAGES.FIXTURES_COUNT]
        [] stage = STAGES.FIXTURES_COUNT ->
             [session EXCEPT !.data.fixturesInfo = Some(message),
                             !.data.bathroomCount = Some(IntOrZero(bathroomMatch(message))),
                             !.currentStage = STAGES.WELL_DEPTH]
        [] stage = STAGES.IRRIGATION_AREA ->
             [session EXCEPT !.data.irrigationArea = Some(FloatOrZero(areaMatch(message))),
                             !.currentStage = STAGES.IRRIGATION_TYPE]
        [] stage = STAGES.IRRIGATION_TYPE -> IrrigationTypeCase(session, message)
        [] stage = STAGES.CROP_TYPE -> CropTypeCase(session, message)
        [] stage = STAGES.CUSTOM_FLOW ->
             [session EXCEPT !.data.customGPD =
                               IF IsDef(numMatch(message)) THEN Some(ParseInt(Val(numMatch(message))))
                               ELSE session.data.customGPD,
                             !.currentStage = STAGES.CUSTOM_HEAD]
        [] stage = STAGES.CUSTOM_HEAD ->
             [session EXCEPT !.data.customHead =
                               IF IsDef(numMatch(message)) THEN Some(ParseInt(Val(numMatch(message))))
                               ELSE session.data.customHead,
                             !.currentStage = STAGES.WELL_DEPTH]
        [] stage = STAGES.WELL_DEPTH ->
             [session EXCEPT !.data.wellDepth = Some(FloatOrZero(depthMatch(message))),
                             !.currentStage = STAGES.STATIC_WATER]
        [] stage = STAGES.STATIC_WATER ->
             [session EXCEPT !.data.staticWaterLevel = Some(FloatOrZero(depthMatch(message))),
                             !.currentStage = STAGES.DRAWDOWN]
        [] stage = STAGES.DRAWDOWN -> DrawdownCase(session, message)
        [] stage = STAGES.ELEVATION -> ElevationCase(session, message)
        [] stage = STAGES.PIPE_INFO -> PipeInfoCase(session, message)
        [] stage = STAGES.STORAGE_TANK ->
             [session EXCEPT !.data.hasStorageTank = Some(~Has(message, "no")),
                             !.currentStage = STAGES.WATER_QUALITY]
        [] stage = STAGES.WATER_QUALITY ->
             [session EXCEPT !.data.sandyWater = Some(Has(message, "sand") \/ Has(message, "sediment")),
                             !.currentStage = STAGES.WELL_CASING]
        [] stage = STAGES.WELL_CASING -> WellCasingCase(session, message)
        [] stage = STAGES.SUMMARY -> SummaryCase(session, message)
        [] OTHER -> session

\* the rest of processUserInput, were the custom override to jump to the summary
SkipToSummary(session, data, message) ==
  IF CustomSkip(session.currentStage, data)
  THEN [session EXCEPT !.data = [data EXCEPT !.usageType = USAGE_TYPES["OTHER"]],
                       !.currentStage = STAGES.SUMMARY]
  ELSE StageSwitch([session EXCEPT !.data = data], message)

\* the rest of processUserInput, data being session.data after the extractions and
\* the usage mentions
SkipOrSwitch(session, data, message) ==
  IF CustomSkip(session.currentStage, data)
  THEN [session EXCEPT !.data = [data EXCEPT !.usageType = USAGE_TYPES["OTHER"]],
                       !.currentStage = STAGES.WELL_DEPTH]
  ELSE StageSwitch([session EXCEPT !.data = data], message)

\* processUserInput(session, message): the session as the call leaves it
processUserInput(session, message) ==
  SkipOrSwitch(session,
               MentionedUsage(session.currentStage, ExtractCustom(session.data, message), message),
               message)

\* adjustSarcasticLevel(session, message)
adjustSarcasticLevel(session, message) ==
  LET level == session.data.sarcasticLevel
      up(k) == IF level + k > 10 THEN 10 ELSE level + k
      down(k) == IF level - k < 0 THEN 0 ELSE level - k
  IN  IF HasAny(message, {"funny", "lol", "haha", "lmao"})
      THEN [session EXCEPT !.data.sarcasticLevel = up(2)]
      ELSE IF HasAny(message, {"hey", "yo", "sup", "thanks", "cool"})
      THEN [session EXCEPT !.data.sarcasticLevel = up(1)]
      ELSE IF HasAny(message, {"please help", "serious", "frustrated", "not helpful", "confused"})
      THEN [session EXCEPT !.data.sarcasticLevel = down(2)]
      ELSE session

(***************************************************************************)
(* State                                                                   *)
(***************************************************************************)
VARIABLES
  session,   \* the session of one conversation: [currentStage, data]
  call,      \* the call of a calculator: the one made directly (SpecCalc), or the one
             \* the chat handler made in the last turn (Spec)
  result,    \* what that call returned; undefined before it returns
  server     \* the process of server.js: its startup, clock, catalog, session store,
             \* the chat requests in flight and the last response sent (SpecServer);
             \* the session store of part_000 and its requests in flight (SpecStore)

vars == << session, call, result, server >>

\* getOrCreateSession: a fresh session
NewSession == [ currentStage |-> STAGES.GREETING, data |-> NewData ]

NoCall ==
  [ fn |-> "none", data |-> NewData, requiredGPM |-> Num(0), requiredHead |-> Num(0),
    pumpStages |-> 0 ]

\* no server process is looked at
NoServer == [ status |-> "off" ]

(***************************************************************************)
(* The chat handler, app.post('/api/chat'): one turn of the conversation.  *)
(* replied tells whether the text-generation call returned; when it throws *)
(* the handler answers 500 and the recommendation step is not reached.     *)
(* The transcript and the fact lookups do not touch currentStage or data   *)
(* and are left out.                                                       *)
(***************************************************************************)
\* the end of the handler, were the recommendation computed at SUMMARY too
RecommendAtSummary(processed, replied) ==
  IF replied /\ processed.currentStage \in { STAGES.SUMMARY, STAGES.RECOMMENDATION }
  THEN [processed EXCEPT !.data.recommendation = Some(calculateRecommendation(processed.data))]
  ELSE processed

\* the end of the handler: session.data.recommendation is set when the reply came
\* and the stage is RECOMMENDATION
Recommend(processed, replied) ==
  IF replied /\ processed.currentStage = STAGES.RECOMMENDATION
  THEN [processed EXCEPT !.data.recommendation = Some(calculateRecommendation(processed.data))]
  ELSE processed

ChatTurn(s, message, replied) ==
  Recommend(adjustSarcasticLevel(processUserInput(s, message), message), replied)

\* the call of calculateRecommendation the handler makes in a turn that leaves the
\* session as processed: none unless the reply came and the stage is RECOMMENDATION
HandlerCall(processed, replied) ==
  IF replied /\ processed.currentStage = STAGES.RECOMMENDATION
  THEN [NoCall EXCEPT !.fn = "calculateRecommendation"]
  ELSE NoCall

Chat(message, replied) ==
  /\ session' = ChatTurn(session, message, replied)
  /\ call' = HandlerCall(session', replied)
  /\ UNCHANGED << result, server >>

\* the user sends plain text, whatever was asked
SendText == \E m \in TextMessages, replied \in BOOLEAN : Chat(m, replied)

\* the stages whose handler stores nothing of the message
OpeningStages == {STAGES.GREETING, STAGES.USAGE_TYPE}

\* the user states the daily flow once: when the conversation opens, or at any stage
\* once the session holds a head
StateFlow ==
  /\ ~IsDef(session.data.customGPD)
  /\ session.currentStage \in OpeningStages \/ IsDef(session.data.customHead)
  /\ \E m \in FlowMessages, replied \in BOOLEAN : Chat(m, replied)

\* the user states the head once: when the conversation opens, or at any stage once
\* the session holds a flow
StateHead ==
  /\ ~IsDef(session.data.customHead)
  /\ session.currentStage \in OpeningStages \/ IsDef(session.data.customGPD)
  /\ \E m \in HeadMessages, replied \in BOOLEAN : Chat(m, replied)

\* the user answers the question about a water level with a bare number
AnswerNumber ==
  /\ session.currentStage \in {STAGES.STATIC_WATER, STAGES.DRAWDOWN}
  /\ \E m \in NumberMessages, replied \in BOOLEAN : Chat(m, replied)

\* the user says what the water is for
AnswerUsage ==
  /\ session.currentStage \in {STAGES.GREETING, STAGES.USAGE_TYPE}
  /\ \E m \in UsageMessages, replied \in BOOLEAN : Chat(m, replied)

\* the user answers the elevation, pipe, water-quality or casing question
AnswerElevation ==
  /\ session.currentStage = STAGES.ELEVATION
  /\ \E m \in ElevationMessages, replied \in BOOLEAN : Chat(m, replied)

AnswerPipe ==
  /\ session.currentStage = STAGES.PIPE_INFO
  /\ \E m \in PipeMessages, replied \in BOOLEAN : Chat(m, replied)

AnswerQuality ==
  /\ session.currentStage = STAGES.WATER_QUALITY
  /\ \E m \in QualityMessages, replied \in BOOLEAN : Chat(m, replied)

AnswerCasing ==
  /\ session.currentStage = STAGES.WELL_CASING
  /\ \E m \in CasingMessages, replied \in BOOLEAN : Chat(m, replied)

\* the user replies to the summary
ReplyToSummary ==
  /\ session.currentStage = STAGES.SUMMARY
  /\ \E m \in SummaryMessages, replied \in BOOLEAN : Chat(m, replied)

Init == session = NewSession /\ call = NoCall /\ result = Undefined /\ server = NoServer

Next ==
  \/ SendText
  \/ StateFlow
  \/ StateHead
  \/ AnswerNumber
  \/ AnswerUsage
  \/ AnswerElevation
  \/ AnswerPipe
  \/ AnswerQuality
  \/ AnswerCasing
  \/ ReplyToSummary

Spec == Init /\ [][Next]_vars

(***************************************************************************)
(* The calculators called directly: one call per behaviour, its arguments  *)
(* drawn from bounded sets, the session left alone                         *)
(***************************************************************************)
\* requiredGPM runs over 0.0, 0.1, ... in tenths of a gallon per minute
MaxGpmTenths == 52

\* requiredHead runs over 0, 2.5, 5, ... feet; every point of every curve is such a head
MaxHeadSteps == 100

\* customGPD runs over 0, 100, 200, ... gallons per day
MaxGpdHundreds == 18

\* customHead runs over 0, 10, 20, ... feet
MaxHeadTens == 25

Flows == { Rat(k, 10) : k \in 0..MaxGpmTenths }

Heads == { Rat(5 * k, 2) : k \in 0..MaxHeadSteps }

CasingSizes == { Undefined, Some(Num(0)), Some(Num(4)), Some(Rat(9, 2)), Some(Num(5)), Some(Num(6)) }

\* the records calculateRecommendation is called with
Records ==
  { [ NewData EXCEPT !.usageType = u, !.customGPD = g, !.customHead = h,
                     !.sandyWater = sandy, !.wellCasingSize = casing ] :
      u \in {USAGE_TYPES.UNKNOWN, USAGE_TYPES["OTHER"]},
      g \in {Undefined} \cup { Some(Num(100 * k)) : k \in 0..MaxGpdHundreds },
      h \in {Undefined} \cup { Some(Num(10 * k)) : k \in 0..MaxHeadTens },
      sandy \in {Undefined, Some(FALSE), Some(TRUE)},
      casing \in CasingSizes }

\* pipeLength runs over 0, 100, 200, ... feet
MaxPipeHundreds == 2

\* staticWaterLevel runs over 0, 50, 100, ... feet
MaxLevelFifties == 2

\* animalCount runs over 0, 10, 20, ... head
MaxAnimalTens == 3

\* peopleCount runs over 0, 1, 2, ...
MaxPeople == 2

\* bathroomCount runs over 0, 1, 2, ...
MaxBathrooms == 2

\* irrigationArea runs over 0, 0.5, 1, ... acres
MaxAreaHalves == 4

\* an optional number: undefined, or one of the numbers
Optional(numbers) == {Undefined} \cup { Some(x) : x \in numbers }

\* the records the head of calculateRecommendation is computed for
HeadRecords ==
  { [ NewData EXCEPT !.customGPD = g, !.customHead = h, !.staticWaterLevel = static,
                     !.drawdownLevel = drawdown, !.elevationGain = elevation,
                     !.pipeLength = length, !.pipeSize = size ] :
      g \in Optional({Num(1000)}),
      h \in Optional({Num(0), Num(80)}),
      static \in Optional({ Num(50 * k) : k \in 0..MaxLevelFifties }),
      drawdown \in Optional({Num(10), Rat(5, 2)}),
      elevation \in Optional({Num(20)}),
      length \in Optional({ Num(100 * k) : k \in 0..MaxPipeHundreds }),
      size \in Optional({Num(0), Rat(3, 2), Num(2)}) }

UsageTypes == { USAGE_TYPES[k] : k \in DOMAIN USAGE_TYPES }

CustomFlows == Optional({Num(0), Num(500)})

\* the records calculateWaterRequirements is called with: the fields of one kind of
\* usage filled in, under every usage type
LivestockRecords ==
  { [ NewData EXCEPT !.usageType = u, !.customGPD = g, !.livestockType = type,
                     !.animalCount = count ] :
      u \in UsageTypes, g \in CustomFlows,
      type \in Optional({ "Dairy cows and horses", "Horses, sheep", "goats and sheep",
                          "Sheep", "beef cattle", "" }),
      count \in Optional({ Num(10 * k) : k \in 0..MaxAnimalTens }) }

HouseholdRecords ==
  { [ NewData EXCEPT !.usageType = u, !.customGPD = g, !.peopleCount = people,
                     !.bathroomCount = bathrooms, !.fixturesInfo = fixtures ] :
      u \in UsageTypes, g \in CustomFlows,
      people \in Optional({ Num(k) : k \in 0..MaxPeople }),
      bathrooms \in Optional({ Num(k) : k \in 0..MaxBathrooms }),
      fixtures \in Optional({ "2 baths", "Kitchen and laundry", "kitchen, garden",
                              "a large or medium garden", "Medium garden, laundry", "" }) }

IrrigationRecords ==
  { [ NewData EXCEPT !.usageType = u, !.customGPD = g, !.irrigationArea = area,
                     !.irrigationMethod = method, !.cropCategory = crop ] :
      u \in UsageTypes, g \in CustomFlows,
      area \in Optional({ Rat(k, 2) : k \in 0..MaxAreaHalves }),
      method \in Optional({"drip", "sprinkler", "flood"}),
      crop \in Optional({"vegetables", "fruits", "lawn"}) }

DemandRecords == LivestockRecords \cup HouseholdRecords \cup IrrigationRecords

\* findSuitablePump(requiredGPM, requiredHead) returns
CallFindSuitablePump ==
  /\ call.fn = "findSuitablePump"
  /\ result = Undefined
  /\ result' = Some(findSuitablePump(call.requiredGPM, call.requiredHead))
  /\ UNCHANGED << session, call, server >>

\* calculateRecommendation(data) returns
CallCalculateRecommendation ==
  /\ call.fn = "calculateRecommendation"
  /\ result = Undefined
  /\ result' = Some(calculateRecommendation(call.data))
  /\ UNCHANGED << session, call, server >>

\* the panel arithmetic of calculateRecommendation runs for a selected model
CallSolar ==
  /\ call.fn = "solar"
  /\ result = Undefined
  /\ result' = Some(SolarPanels(call.pumpStages))
  /\ UNCHANGED << session, call, server >>

\* the head computation of calculateRecommendation runs for a record
CallTotalDynamicHead ==
  /\ call.fn = "tdh"
  /\ result = Undefined
  /\ result' = Some(TotalDynamicHead(call.data, calculateWaterRequirements(call.data)))
  /\ UNCHANGED << session, call, server >>

\* calculateWaterRequirements(data) returns
CallCalculateWaterRequirements ==
  /\ call.fn = "calculateWaterRequirements"
  /\ result = Undefined
  /\ result' = Some(calculateWaterRequirements(call.data))
  /\ UNCHANGED << session, call, server >>

\* one call, of one of the calculators, that has not returned
InitCalc ==
  /\ session = NewSession
  /\ result = Undefined
  /\ server = NoServer
  /\ \/ \E g \in Flows, h \in Heads :
          call = [ NoCall EXCEPT !.fn = "findSuitablePump", !.requiredGPM = g, !.requiredHead = h ]
     \/ \E d \in Records : call = [ NoCall EXCEPT !.fn = "calculateRecommendation", !.data = d ]
     \/ \E i \in 1..Len(pumpData) :
          call = [ NoCall EXCEPT !.fn = "solar", !.pumpStages = pumpData[i].stages ]
     \/ \E d \in HeadRecords : call = [ NoCall EXCEPT !.fn = "tdh", !.data = d ]
     \/ \E d \in DemandRecords :
          call = [ NoCall EXCEPT !.fn = "calculateWaterRequirements", !.data = d ]

NextCalc ==
  \/ CallFindSuitablePump
  \/ CallCalculateRecommendation
  \/ CallSolar
  \/ CallTotalDynamicHead
  \/ CallCalculateWaterRequirements

SpecCalc == InitCalc /\ [][NextCalc]_vars

(***************************************************************************)
(* server.js: the fields of a request body                                 *)
(***************************************************************************)
\* a field of the JSON body: absent, a string, or a number (its digits)
Absent == [ type |-> "undefined", value |-> "" ]

Text(s) == [ type |-> "string", value |-> s ]

Numeral(digits) == [ type |-> "number", value |-> digits ]

\* !v
Falsy(v) ==
  \/ v.type = "undefined"
  \/ v.type = "string" /\ v.value = ""
  \/ v.type = "number" /\ v.value = "0"

\* s, n times over
RECURSIVE Repeat(_, _)
Repeat(s, n) == IF n = 0 THEN "" ELSE s \o Repeat(s, n - 1)

\* the messages a request carries: none, a number, the empty string, a greeting, the
\* name of a place, a sentence that names one, and a string of 501 characters
BodyMessages ==
  { Absent, Numeral("42"), Text(""), Text("Hi"), Text("Texas"), Text("I am in Austin"),
    Text(Repeat("water", 100) \o "s") }

\* the session ids a request carries: none, a number, a string of 4 characters, and
\* the ids of two conversations
BodySessionIds == { Absent, Numeral("12345"), Text("abcd"), Text("ranch"), Text("ranch-2") }

(***************************************************************************)
(* server.js: extractPossibleLocation(message)                             *)
(***************************************************************************)
locationKeywords == << "in", "at", "near", "from", "living in", "located in", "based in" >>

IsLetter(c) == Includes(UpperCase, c) \/ Includes(LowerCase, c)

\* \w
IsWordChar(c) == IsLetter(c) \/ IsDigit(c) \/ c = "_"

\* [\w\s,]
IsPlaceChar(c) == IsWordChar(c) \/ IsSpace(c) \/ c = ","

\* end of the run of [\w\s,] that starts at position i
RECURSIVE PlaceEnd(_, _)
PlaceEnd(s, i) ==
  IF i <= Len(s) /\ IsPlaceChar(CharAt(s, i)) THEN PlaceEnd(s, i + 1) ELSE i - 1

\* the positions where new RegExp(`${keyword}\\s+([\\w\\s,]+)`, 'i') matches: the
\* keyword, a whitespace character, and one more character of [\w\s,]
KeywordStarts(s, keyword) ==
  { i \in 1..Len(s) :
      /\ i + Len(keyword) + 1 <= Len(s)
      /\ ToLower(SubSeq(s, i, i + Len(keyword) - 1)) = keyword
      /\ IsSpace(CharAt(s, i + Len(keyword)))
      /\ IsPlaceChar(CharAt(s, i + Len(keyword) + 1)) }

\* match[1] of the leftmost match that starts at position i: \s+ takes all the
\* whitespace when a character of [\w,] follows it, and all but the last otherwise
KeywordCapture(s, keyword, i) ==
  IF SkipSpaces(s, i + Len(keyword)) <= Len(s)
       /\ IsPlaceChar(CharAt(s, SkipSpaces(s, i + Len(keyword))))
  THEN SubSeq(s, SkipSpaces(s, i + Len(keyword)), PlaceEnd(s, SkipSpaces(s, i + Len(keyword))))
  ELSE " "

\* s.trim()
RECURSIVE TrimEnd(_)
TrimEnd(s) ==
  IF s # "" /\ IsSpace(CharAt(s, Len(s))) THEN TrimEnd(SubSeq(s, 1, Len(s) - 1)) ELSE s

Trim(s) == TrimEnd(From(s, SkipSpaces(s, 1)))

\* for (const keyword of locationKeywords), from the k-th keyword on
RECURSIVE KeywordLoop(_, _)
KeywordLoop(message, k) ==
  IF k > Len(locationKeywords) THEN Undefined
  ELSE IF KeywordStarts(message, locationKeywords[k]) # {}
            /\ Len(KeywordCapture(message, locationKeywords[k],
                                  Min(KeywordStarts(message, locationKeywords[k])))) > 3
       THEN Some(Trim(KeywordCapture(message, locationKeywords[k],
                                     Min(KeywordStarts(message, locationKeywords[k])))))
       ELSE KeywordLoop(message, k + 1)

\* message.split(/\s+/).length
WordCount(s) ==
  1 + Cardinality({ i \in 1..Len(s) :
                      IsSpace(CharAt(s, i)) /\ (i = 1 \/ ~IsSpace(CharAt(s, i - 1))) })

\* /^[A-Za-z\s,]+$/.test(s)
OnlyLetters(s) ==
  s # "" /\ \A i \in 1..Len(s) : IsLetter(CharAt(s, i)) \/ IsSpace(CharAt(s, i)) \/ CharAt(s, i) = ","

extractPossibleLocation(message) ==
  IF Len(message) < 5 THEN Undefined
  ELSE IF IsDef(KeywordLoop(message, 1)) THEN KeywordLoop(message, 1)
  ELSE IF WordCount(message) <= 3 /\ OnlyLetters(message) THEN Some(Trim(message))
  ELSE Undefined

\* extractPossibleLocation, for every string a request carries
PossibleLocation ==
  [ m \in { b.value : b \in { v \in BodyMessages : v.type = "string" } }
      |-> extractPossibleLocation(m) ]

(***************************************************************************)
(* server.js: the start of the process                                     *)
(***************************************************************************)
\* what loadPumpData finds on disk
CatalogSources ==
  { "workbook", "no data directory", "no file", "no sheets", "no rows", "no model column",
    "no model rows" }

\* loadPumpData(): every failure is thrown inside its try block, whose catch block
\* returns the default object
loadPumpData(source) ==
  IF source = "workbook" THEN [ thrown |-> FALSE, value |-> "workbook" ]
  ELSE [ thrown |-> FALSE, value |-> "DEFAULT_PUMP" ]

\* the top level of server.js: the check of the environment variables, the catalog
\* load, app.listen
StartServer(sv, env, source) ==
  IF ~env THEN [sv EXCEPT !.status = "exited"]
  ELSE IF loadPumpData(source).thrown THEN [sv EXCEPT !.status = "exited"]
  ELSE [sv EXCEPT !.status = "serving", !.pumpData = loadPumpData(source).value]

(***************************************************************************)
(* server.js: the session store                                            *)
(***************************************************************************)
\* 24 * 60 * 60 * 1000 ms, the clock counting in units of 12 hours
SESSION_TTL == 2

\* the clock stops here
MaxClock == 4

\* the chat requests of one run
MaxRequests == 2

EmptyMap == [ i \in {} |-> 0 ]

\* the session object getOrCreateSession creates
NewServerSession(now) ==
  [ messages |-> << >>, data |-> [ location |-> Undefined ], currentStage |-> "GREETING",
    lastAccessed |-> now ]

\* the test at the head of getOrCreateSession passes
ValidSessionId(sessionId) ==
  ~Falsy(sessionId) /\ sessionId.type = "string" /\ Len(sessionId.value) >= 5

\* getOrCreateSession(id) for an id that passes the test: sessions maps the id to its
\* session object, heap holds the objects
getOrCreateSession(sv, id) ==
  IF id \notin DOMAIN sv.sessions
  THEN [sv EXCEPT !.heap = Append(@, NewServerSession(sv.now)),
                  !.sessions = (id :> (Len(sv.heap) + 1)) @@ @]
  ELSE [sv EXCEPT !.heap[sv.sessions[id]].lastAccessed = sv.now]

\* the test of cleanupSessions, at exactly the TTL too
ExpiredAtTTL(s, now) == s.lastAccessed # 0 /\ now - s.lastAccessed >= SESSION_TTL

\* the test of cleanupSessions
Expired(s, now) == s.lastAccessed # 0 /\ now - s.lastAccessed > SESSION_TTL

\* cleanupSessions()
cleanupSessions(sv) ==
  [sv EXCEPT !.sessions =
     [ id \in { i \in DOMAIN sv.sessions : ~Expired(sv.heap[sv.sessions[i]], sv.now) }
         |-> sv.sessions[id] ]]

(***************************************************************************)
(* server.js: app.post('/api/chat'). The handler runs from one await to the *)
(* next without interruption; a request that awaits is held in requests,   *)
(* with the session object its local variable refers to. The requests are  *)
(* those the rate limiter lets through.                                    *)
(***************************************************************************)
NoResponse == [ request |-> 0, status |-> 0 ]

\* res.status(status).json(...) ends request r
Respond(sv, r, status) ==
  [sv EXCEPT !.requests = [ q \in DOMAIN sv.requests \ {r} |-> sv.requests[q] ],
             !.response = [ request |-> r, status |-> status ]]

\* session.messages.push(user message) and the extraction of the location
Heard(sv, o, text) ==
  [sv EXCEPT !.heap[o].messages = Append(@, [ role |-> "user", content |-> text ]),
             !.heap[o].data.location =
                IF ~TruthyStr(@) /\ TruthyStr(PossibleLocation[text])
                THEN PossibleLocation[text] ELSE @]

\* the handler reaches its first await: of the solar lookup when the session holds a
\* location, of the text generation otherwise
Suspend(sv, o, id) ==
  [sv EXCEPT !.requests =
     (sv.arrived :> [ sessionId |-> id, session |-> o, receivedAt |-> sv.now,
                      pc |-> IF TruthyStr(sv.heap[o].data.location) THEN "lookup" ELSE "generate",
                      solar |-> Undefined, lookupError |-> FALSE, retryCount |-> 0,
                      calls |-> IF TruthyStr(sv.heap[o].data.location) THEN 0 ELSE 1 ]) @@ @]

\* the handler after getOrCreateSession returned
Admit(sv, text, id) ==
  IF Len(text) > 500 THEN Respond(sv, sv.arrived, 400)
  ELSE Suspend(Heard(sv, sv.sessions[id], text), sv.sessions[id], id)

\* the handler from its first line on, for the request numbered sv.arrived
Receive(sv, message, sessionId) ==
  IF Falsy(message) \/ message.type # "string" THEN Respond(sv, sv.arrived, 400)
  ELSE IF Falsy(sessionId) THEN Respond(sv, sv.arrived, 400)
  ELSE IF ~ValidSessionId(sessionId) THEN Respond(sv, sv.arrived, 400)
  ELSE Admit(getOrCreateSession(sv, sessionId.value), message.value, sessionId.value)

\* what the search service does
LookupOutcomes ==
  { "snippets", "no items", "no response", "error status", "error status without body" }

\* searchSolarInsolation(location): an error status whose response carries no body
\* object makes the catch block throw at error.response.data.error
searchSolarInsolation(outcome) ==
  IF outcome = "snippets" THEN [ thrown |-> FALSE, value |-> Some("5.5 kWh/m2/day") ]
  ELSE IF outcome = "error status without body" THEN [ thrown |-> TRUE, value |-> Undefined ]
  ELSE [ thrown |-> FALSE, value |-> Undefined ]

\* the handler after the lookup, were an error thrown by the lookup to end the turn
LookedOrFailed(sv, r, lookup) ==
  IF lookup.thrown THEN Respond(sv, r, 500)
  ELSE [sv EXCEPT !.requests[r] =
          [@ EXCEPT !.pc = "generate", !.calls = 1, !.solar = lookup.value]]

\* the handler from the return of the lookup to the await of the text generation
Looked(sv, r, lookup) ==
  [sv EXCEPT !.requests[r] =
     [@ EXCEPT !.pc = "generate", !.calls = 1,
               !.solar = IF lookup.thrown THEN Undefined ELSE lookup.value,
               !.lookupError = lookup.thrown]]

maxRetries == 3

\* session.messages after the trim, were it to keep the last 20 messages
TrimmedToTwenty(messages) ==
  IF Len(messages) > 20
  THEN SelectSeq(messages, LAMBDA msg : msg.role = "system")
         \o SubSeq(messages, Len(messages) - 19, Len(messages))
  ELSE messages

\* session.messages after the trim of a transcript of more than 20 messages
Trimmed(messages) ==
  IF Len(messages) > 20
  THEN SelectSeq(messages, LAMBDA msg : msg.role = "system")
         \o SubSeq(messages, Len(messages) - 17, Len(messages))
  ELSE messages

\* the text generation returned: the reply is pushed and sent
Replied(sv, r) ==
  Respond([sv EXCEPT !.heap[sv.requests[r].session].messages =
                        Trimmed(Append(@, [ role |-> "assistant", content |-> "reply" ]))],
          r, 200)

\* the catch block of the retry loop, were it to allow one more attempt
FailedWithOneMore(sv, r) ==
  IF sv.requests[r].retryCount + 1 > maxRetries THEN Respond(sv, r, 500)
  ELSE [sv EXCEPT !.requests[r].retryCount = @ + 1, !.requests[r].pc = "backoff"]

\* the catch block of the retry loop
Failed(sv, r) ==
  IF sv.requests[r].retryCount + 1 >= maxRetries THEN Respond(sv, r, 500)
  ELSE [sv EXCEPT !.requests[r].retryCount = @ + 1, !.requests[r].pc = "backoff"]

ServerUntouched == UNCHANGED << session, call, result >>

\* the process starts: the environment variables are set or not, and the disk holds
\* the workbook or lacks some part of it
Startup ==
  /\ server.status = "starting"
  /\ \E env \in BOOLEAN, source \in CatalogSources : server' = StartServer(server, env, source)
  /\ ServerUntouched

\* a chat request arrives
Arrive ==
  /\ server.status = "serving"
  /\ server.arrived < MaxRequests
  /\ \E message \in BodyMessages, sessionId \in BodySessionIds :
       server' = Receive([server EXCEPT !.arrived = @ + 1], message, sessionId)
  /\ ServerUntouched

\* the solar lookup of a request returns or throws
SolarReturns ==
  /\ \E r \in DOMAIN server.requests, outcome \in LookupOutcomes :
       /\ server.requests[r].pc = "lookup"
       /\ server' = Looked(server, r, searchSolarInsolation(outcome))
  /\ ServerUntouched

\* the text generation of a request returns or throws
GenerationReturns ==
  /\ \E r \in DOMAIN server.requests, ok \in BOOLEAN :
       /\ server.requests[r].pc = "generate"
       /\ server' = IF ok THEN Replied(server, r) ELSE Failed(server, r)
  /\ ServerUntouched

\* the backoff of a request is over: the next attempt is made
BackoffElapses ==
  /\ \E r \in DOMAIN server.requests :
       /\ server.requests[r].pc = "backoff"
       /\ server' = [server EXCEPT !.requests[r].pc = "generate", !.requests[r].calls = @ + 1]
  /\ ServerUntouched

\* time passes
Tick ==
  /\ server.status = "serving"
  /\ server.now < MaxClock
  /\ server' = [server EXCEPT !.now = @ + 1]
  /\ ServerUntouched

\* the hourly timer runs cleanupSessions
Sweep ==
  /\ server.status = "serving"
  /\ server' = cleanupSessions(server)
  /\ ServerUntouched

InitServer ==
  /\ session = NewSession
  /\ call = NoCall
  /\ result = Undefined
  /\ server = [ status |-> "starting", pumpData |-> "none", now |-> 1,
                sessions |-> EmptyMap, heap |-> << >>, requests |-> EmptyMap,
                arrived |-> 0, response |-> NoResponse ]

NextServer ==
  \/ Startup
  \/ Arrive
  \/ SolarReturns
  \/ GenerationReturns
  \/ BackoffElapses
  \/ Tick
  \/ Sweep

SpecServer == InitServer /\ [][NextServer]_vars

(***************************************************************************)
(* server.js: the chat handler on a session with a history. The process    *)
(* serves, the store holds one session that has had some answered turns,   *)
(* and the clock is not looked at.                                         *)
(***************************************************************************)
\* the answered turns a transcript holds before its first trim: 20 messages
MaxExchanges == 10

\* the transcript after k answered turns, the i-th message told from the others by
\* its length
History(k) ==
  [ i \in 1..(2 * k) |->
      [ role |-> IF i % 2 = 1 THEN "user" ELSE "assistant", content |-> Repeat("a", i) ] ]

InitHistory ==
  /\ session = NewSession
  /\ call = NoCall
  /\ result = Undefined
  /\ \E k \in 0..MaxExchanges :
       server = [ status |-> "serving", pumpData |-> "workbook", now |-> 1,
                  sessions |-> [ id \in { "ranch" } |-> 1 ],
                  heap |-> << [NewServerSession(1) EXCEPT !.messages = History(k)] >>,
                  requests |-> EmptyMap, arrived |-> 0, response |-> NoResponse ]

NextHistory ==
  \/ Arrive
  \/ SolarReturns
  \/ GenerationReturns
  \/ BackoffElapses

SpecHistory == InitHistory /\ [][NextHistory]_vars

(***************************************************************************)
(* server.js: rateLimit(req, res, next), the middleware of every route.    *)
(* The clock counts units of 30 seconds.                                   *)
(***************************************************************************)
\* the seconds of one unit of the clock
UnitSeconds == 30

\* RATE_LIMIT_WINDOW: 60 seconds
RATE_LIMIT_WINDOW == 2

RATE_LIMIT_MAX == 10

\* the clock of one run
MaxLimitClock == 4

\* the requests of one run
MaxLimitRequests == 12

\* req.ip of the clients
ClientIps == { "10.0.0.1", "10.0.0.2" }

\* next(): the request of the ip goes on to its route at the time of the clock
PassedOn(sv, ip) ==
  [sv EXCEPT !.admitted[ip][sv.now] = @ + 1, !.response = [ ip |-> ip, status |-> 0, retryAfter |-> 0 ]]

\* res.status(429).json({ error, retryAfter })
TooMany(sv, ip) ==
  [sv EXCEPT !.response =
     [ ip |-> ip, status |-> 429,
       retryAfter |-> (sv.requestCounts[ip].resetTime - sv.now) * UnitSeconds ]]

\* rateLimit for a request of the ip
rateLimit(sv, ip) ==
  IF ip \notin DOMAIN sv.requestCounts
  THEN PassedOn([sv EXCEPT !.requestCounts =
                   (ip :> [ count |-> 1, resetTime |-> sv.now + RATE_LIMIT_WINDOW ]) @@ @], ip)
  ELSE IF sv.now > sv.requestCounts[ip].resetTime
  THEN PassedOn([sv EXCEPT !.requestCounts[ip] =
                   [ count |-> 1, resetTime |-> sv.now + RATE_LIMIT_WINDOW ]], ip)
  ELSE IF sv.requestCounts[ip].count >= RATE_LIMIT_MAX
  THEN TooMany(sv, ip)
  ELSE PassedOn([sv EXCEPT !.requestCounts[ip].count = @ + 1], ip)

\* a request of some client arrives
LimitArrive ==
  /\ server.arrived < MaxLimitRequests
  /\ \E ip \in ClientIps : server' = rateLimit([server EXCEPT !.arrived = @ + 1], ip)
  /\ ServerUntouched

\* time passes
LimitTick ==
  /\ server.now < MaxLimitClock
  /\ server' = [server EXCEPT !.now = @ + 1]
  /\ ServerUntouched

InitLimit ==
  /\ session = NewSession
  /\ call = NoCall
  /\ result = Undefined
  /\ server = [ now |-> 1, requestCounts |-> EmptyMap,
                admitted |-> [ ip \in ClientIps |-> [ t \in 1..MaxLimitClock |-> 0 ] ],
                arrived |-> 0, response |-> [ ip |-> "", status |-> 0, retryAfter |-> 0 ] ]

NextLimit ==
  \/ LimitArrive
  \/ LimitTick

SpecLimit == InitLimit /\ [][NextLimit]_vars

(***************************************************************************)
(* part_000: the session store, and the chat handler with its awaits. A    *)
(* request is held in requests while it awaits the solar lookup, the       *)
(* local-fact lookup or the text generation. The await of                  *)
(* searchPumpInformation, which reads and writes nothing of the store, is  *)
(* passed over; the clock and lastAccessed are not looked at.              *)
(***************************************************************************)
\* the chat requests of one run
MaxStoreRequests == 3

\* the session ids a request carries: none, and the ids of two conversations
StoreIds == { "", "ranch", "ranch-2" }

\* the messages a request carries
StoreMessages == { "cattle", "yes", "location" }

\* the messages of a conversation that has come to the summary
Script ==
  << "cattle", "Texas", "Texas", "cattle", "100", "100", "100", "100", "directly", "Texas",
     "4 inch" >>

\* the session object getOrCreateSession creates
NewStoreSession ==
  [ messages |-> << >>, currentStage |-> STAGES.GREETING, data |-> NewData,
    hasSharedLocalFact |-> FALSE ]

\* the handler up to its first await, were the extraction to run only while the
\* transcript is short
HeardInShortTranscript(s, message) ==
  IF Len(s.messages) >= 2
  THEN [s EXCEPT !.messages = Append(@, [ role |-> "user", content |-> message ])]
  ELSE adjustSarcasticLevel(
         processUserInput(
           [s EXCEPT !.messages = Append(@, [ role |-> "user", content |-> message ])], message),
         message)

\* the handler up to its first await, in the session object s: the message is pushed
\* and processed
HeardInStore(s, message) ==
  adjustSarcasticLevel(
    processUserInput([s EXCEPT !.messages = Append(@, [ role |-> "user", content |-> message ])],
                     message),
    message)

\* the handler after the text generation returned: the reply is pushed and the
\* recommendation step runs
RepliedInStore(s) ==
  Recommend([s EXCEPT !.messages = Append(@, [ role |-> "assistant", content |-> "reply" ])], TRUE)

\* the session after the first k messages of the script, each answered
RECURSIVE Scripted(_)
Scripted(k) ==
  IF k = 0 THEN NewStoreSession
  ELSE CHOOSE s \in { RepliedInStore(HeardInStore(before, Script[k])) :
                        before \in { Scripted(k - 1) } } : TRUE

\* the store, were the sessions to share one data object
PutInSharedData(sv, id, s) ==
  [sv EXCEPT !.sessions =
     (id :> s) @@ [ i \in DOMAIN sv.sessions |-> [sv.sessions[i] EXCEPT !.data = s.data] ]]

\* the store after the handler changed the session object of the id to s
Put(sv, id, s) == [sv EXCEPT !.sessions = (id :> s) @@ @]

\* getOrCreateSession(id) in part_000: the object the id has, or a new one
StoreSession(sv, id) ==
  IF id \in DOMAIN sv.sessions THEN sv.sessions[id] ELSE NewStoreSession

\* the test before the lookups: the session is at LOCATION and holds a location
NeedsLocationData(s) == s.currentStage = STAGES.LOCATION /\ TruthyStr(s.data.location)

\* the handler reaches its first await: of the solar lookup when the test passes, of
\* the text generation otherwise. The request keeps its message, the lookups it has
\* issued, and the stage its own message was processed to
StoreSuspend(sv, id, message) ==
  [sv EXCEPT !.requests =
     (sv.arrived :>
        [ sessionId |-> id, message |-> message, processedTo |-> sv.sessions[id].currentStage,
          pc |-> IF NeedsLocationData(sv.sessions[id]) THEN "solar" ELSE "generate",
          lookups |-> IF NeedsLocationData(sv.sessions[id])
                      THEN << [ fn |-> "searchSolarInsolation",
                                location |-> sv.sessions[id].data.location ] >>
                      ELSE << >> ]) @@ @]

\* the handler from its first line to its first await, for the request numbered
\* sv.arrived
StoreReceive(sv, id, message) ==
  IF id = "" THEN [sv EXCEPT !.response = [ request |-> sv.arrived, status |-> 400 ]]
  ELSE StoreSuspend(Put(sv, id, HeardInStore(StoreSession(sv, id), message)), id, message)

\* the handler of request r from the return of the solar lookup to its next await: of
\* the local-fact lookup if the session has shared no local fact, of the text
\* generation otherwise
StoreLooked(sv, r) ==
  IF ~sv.sessions[sv.requests[r].sessionId].hasSharedLocalFact
  THEN [sv EXCEPT !.requests[r].pc = "localFact",
                  !.requests[r].lookups =
                     Append(@, [ fn |-> "searchLocalFact",
                                 location |-> sv.sessions[sv.requests[r].sessionId].data.location ])]
  ELSE [sv EXCEPT !.requests[r].pc = "generate"]

\* the handler of request r from the return of the local-fact lookup to the await of
\* the text generation
StoreFactReturned(sv, r, found) ==
  [sv EXCEPT !.requests[r].pc = "generate",
             !.sessions[sv.requests[r].sessionId].hasSharedLocalFact = found \/ @]

\* res.json({ message, stage, sessionId, recommendation }) ends request r
StoreRespond(sv, r) ==
  [sv EXCEPT !.requests = [ q \in DOMAIN sv.requests \ {r} |-> sv.requests[q] ],
             !.response =
                [ request |-> r, status |-> 200,
                  stage |-> sv.sessions[sv.requests[r].sessionId].currentStage,
                  recommendation |->
                    IF sv.sessions[sv.requests[r].sessionId].currentStage = STAGES.RECOMMENDATION
                    THEN sv.sessions[sv.requests[r].sessionId].data.recommendation
                    ELSE Undefined ]]

\* the handler of request r from the return of the text generation on
StoreAnswer(sv, r, replied) ==
  IF replied
  THEN StoreRespond(Put(sv, sv.requests[r].sessionId,
                        RepliedInStore(sv.sessions[sv.requests[r].sessionId])), r)
  ELSE Respond(sv, r, 500)

\* a chat request arrives
StoreArrive ==
  /\ server.arrived < MaxStoreRequests
  /\ \E id \in StoreIds, message \in StoreMessages :
       server' = StoreReceive([server EXCEPT !.arrived = @ + 1], id, message)
  /\ ServerUntouched

\* the solar lookup of a request returns
StoreSolarReturns ==
  /\ \E r \in DOMAIN server.requests :
       /\ server.requests[r].pc = "solar"
       /\ server' = StoreLooked(server, r)
  /\ ServerUntouched

\* the local-fact lookup of a request returns a fact or nothing
StoreFactReturns ==
  /\ \E r \in DOMAIN server.requests, found \in BOOLEAN :
       /\ server.requests[r].pc = "localFact"
       /\ server' = StoreFactReturned(server, r, found)
  /\ ServerUntouched

\* the text generation of a request returns or throws
StoreReplies ==
  /\ \E r \in DOMAIN server.requests, replied \in BOOLEAN :
       /\ server.requests[r].pc = "generate"
       /\ server' = StoreAnswer(server, r, replied)
  /\ ServerUntouched

\* the store is empty, or holds a conversation that has come to the summary
InitStore ==
  /\ session = NewSession
  /\ call = NoCall
  /\ result = Undefined
  /\ \E sessions \in { EmptyMap, [ id \in { "ranch" } |-> Scripted(Len(Script)) ] } :
       server = [ sessions |-> sessions, requests |-> EmptyMap, arrived |-> 0,
                  response |-> NoResponse ]

NextStore ==
  \/ StoreArrive
  \/ StoreSolarReturns
  \/ StoreFactReturns
  \/ StoreReplies

SpecStore == InitStore /\ [][NextStore]_vars

(***************************************************************************)
(* The stage machine (Spec)                                                *)
(***************************************************************************)
\* the stages a reply to the summary can send the conversation back to
CorrectionStages ==
  { STAGES.LOCATION, STAGES.LIVESTOCK_TYPE, STAGES.PEOPLE_COUNT, STAGES.IRRIGATION_AREA,
    STAGES.WELL_DEPTH, STAGES.STATIC_WATER, STAGES.DRAWDOWN, STAGES.ELEVATION,
    STAGES.PIPE_INFO, STAGES.STORAGE_TANK, STAGES.WATER_QUALITY, STAGES.WELL_CASING }

\* the edges of the stage graph
StageEdges ==
  { << STAGES.GREETING, STAGES.USAGE_TYPE >>, << STAGES.USAGE_TYPE, STAGES.LOCATION >>,
    << STAGES.LOCATION, STAGES.LIVESTOCK_TYPE >>, << STAGES.LOCATION, STAGES.PEOPLE_COUNT >>,
    << STAGES.LOCATION, STAGES.IRRIGATION_AREA >>, << STAGES.LOCATION, STAGES.CUSTOM_FLOW >>,
    << STAGES.LIVESTOCK_TYPE, STAGES.ANIMAL_COUNT >>, << STAGES.ANIMAL_COUNT, STAGES.WELL_DEPTH >>,
    << STAGES.PEOPLE_COUNT, STAGES.FIXTURES_COUNT >>, << STAGES.FIXTURES_COUNT, STAGES.WELL_DEPTH >>,
    << STAGES.IRRIGATION_AREA, STAGES.IRRIGATION_TYPE >>,
    << STAGES.IRRIGATION_TYPE, STAGES.CROP_TYPE >>, << STAGES.CROP_TYPE, STAGES.WELL_DEPTH >>,
    << STAGES.CUSTOM_FLOW, STAGES.CUSTOM_HEAD >>, << STAGES.CUSTOM_HEAD, STAGES.WELL_DEPTH >>,
    << STAGES.WELL_DEPTH, STAGES.STATIC_WATER >>, << STAGES.STATIC_WATER, STAGES.DRAWDOWN >>,
    << STAGES.DRAWDOWN, STAGES.ELEVATION >>,
    << STAGES.ELEVATION, STAGES.PIPE_INFO >>, << STAGES.ELEVATION, STAGES.WATER_QUALITY >>,
    << STAGES.PIPE_INFO, STAGES.STORAGE_TANK >>, << STAGES.STORAGE_TANK, STAGES.WATER_QUALITY >>,
    << STAGES.WATER_QUALITY, STAGES.WELL_CASING >>, << STAGES.WELL_CASING, STAGES.SUMMARY >>,
    << STAGES.SUMMARY, STAGES.RECOMMENDATION >> }
  \cup { << STAGES.SUMMARY, t >> : t \in CorrectionStages }

LateStages == { STAGES.SUMMARY, STAGES.RECOMMENDATION }

\* this step is the custom-override jump: the message arrived before the summary, it
\* leaves the session at WELL_DEPTH with a flow and a head that are both non-zero
OverrideJump ==
  /\ session.currentStage \notin LateStages
  /\ session'.currentStage = STAGES.WELL_DEPTH
  /\ TruthyNum(session'.data.customGPD)
  /\ TruthyNum(session'.data.customHead)

\* C1: currentStage is always one of the declared stages, and every change of
\* currentStage is an edge of the stage graph, a correction out of SUMMARY, or the
\* custom-override jump to WELL_DEPTH.
C1_StageEdgesOnly ==
  /\ [](session.currentStage \in StageNames)
  /\ [][ session'.currentStage # session.currentStage
           => \/ << session.currentStage, session'.currentStage >> \in StageEdges
              \/ OverrideJump ]_vars

\* a conversation that went the whole way and was sized
C1_Witness ==
  /\ session.currentStage = STAGES.RECOMMENDATION
  /\ IsDef(session.data.recommendation)
  /\ IsDef(session.data.wellCasingSize)

C3_WellDepthIsLeft ==
  session.currentStage = STAGES.WELL_DEPTH
    => \E m \in Messages : processUserInput(session, m).currentStage = STAGES.STATIC_WATER

(***************************************************************************)
(* The calculators (SpecCalc)                                              *)
(***************************************************************************)
\* the call of fn has returned
Returned(fn) == call.fn = fn /\ IsDef(result)

\* the record is not disqualified: the water is not sandy and the casing, when
\* recorded, is not below 5 inches
NotDisqualified(data) ==
  /\ data.sandyWater # Some(TRUE)
  /\ IsDef(data.wellCasingSize) => Geq(Val(data.wellCasingSize), Num(5))

\* C4: for every record with sandyWater = true, calculateRecommendation returns
\* isValid = false with the sandy-water message, whatever the other fields hold.
C4_SandyAlwaysRejected ==
  ( Returned("calculateRecommendation") /\ call.data.sandyWater = Some(TRUE) )
    => Val(result) = [ isValid |-> FALSE, message |-> SandyWaterMessage ]

\* sandy water with a 6 inch casing, a stated flow and a head of 10 ft
C4_Witness ==
  /\ Returned("calculateRecommendation")
  /\ call.data.sandyWater = Some(TRUE)
  /\ call.data.wellCasingSize = Some(Num(6))
  /\ call.data.customGPD = Some(Num(500))
  /\ call.data.customHead = Some(Num(10))
  /\ Val(result).message = SandyWaterMessage

\* C5: for every recorded wellCasingSize v with 0 <= v < 5, calculateRecommendation
\* returns isValid = false, and with the casing message unless the water is sandy.
C5_SmallCasingRejected ==
  ( /\ Returned("calculateRecommendation")
    /\ IsDef(call.data.wellCasingSize)
    /\ Geq(Val(call.data.wellCasingSize), Num(0))
    /\ Lt(Val(call.data.wellCasingSize), Num(5)) )
    => /\ ~Val(result).isValid
       /\ call.data.sandyWater # Some(TRUE) => Val(result).message = CasingMessage

\* the segments of a curve that bracket the head h
Bracketing(points, h) ==
  { j \in 1..(Len(points) - 1) : Leq(points[j].head, h) /\ Leq(h, points[j + 1].head) }

\* p1.flow + (p2.flow - p1.flow) * (h - p1.head) / (p2.head - p1.head)
OnSegment(p1, p2, h) ==
  Add(p1.flowRate,
      Div(Mul(Sub(p2.flowRate, p1.flowRate), Sub(h, p1.head)), Sub(p2.head, p1.head)))

\* the catalog models (by position) that qualify: maxHead >= requiredHead and an
\* interpolated flow at requiredHead that is >= requiredGPM
Qualifying(requiredGPM, requiredHead) ==
  { i \in 1..Len(pumpData) :
      /\ Geq(pumpData[i].maxHead, requiredHead)
      /\ \E j \in Bracketing(pumpData[i].flowRateByHead, requiredHead) :
           Geq(OnSegment(pumpData[i].flowRateByHead[j], pumpData[i].flowRateByHead[j + 1],
                         requiredHead), requiredGPM) }

\* model i is a qualifying one with the fewest stages, the first of them in catalog order
FewestStages(i, qualifying) ==
  /\ i \in qualifying
  /\ \A k \in qualifying :
       /\ pumpData[i].stages <= pumpData[k].stages
       /\ pumpData[i].stages = pumpData[k].stages => i <= k

\* C6: findSuitablePump returns a model if and only if some catalog model qualifies,
\* and the model it returns is the qualifying model with the fewest stages, the first
\* in catalog order among equals.
C6_FewestStagesQualifying ==
  Returned("findSuitablePump")
    => /\ IsDef(Val(result)) <=> Qualifying(call.requiredGPM, call.requiredHead) # {}
       /\ IsDef(Val(result))
            => \E i \in 1..Len(pumpData) :
                 /\ pumpData[i].model = Val(Val(result)).model
                 /\ pumpData[i].stages = Val(Val(result)).stages
                 /\ FewestStages(i, Qualifying(call.requiredGPM, call.requiredHead))

\* 4.6 GPM at 70 ft: the four-stage model reaches the head but not the flow, and the
\* five-stage model is returned
C6_Witness ==
  /\ Returned("findSuitablePump")
  /\ call.requiredGPM = Rat(46, 10)
  /\ call.requiredHead = Num(70)
  /\ 4 \notin Qualifying(call.requiredGPM, call.requiredHead)
  /\ IsDef(Val(result))
  /\ Val(Val(result)).model = "5S48V50C"

\* the head one step above h
NextHead(h) == Add(h, Rat(5, 2))

\* the flow of model data at head h is the interpolation on every bracketing segment,
\* lies between the flow of the last point and maxFlow, and does not rise at the next head
FlowOnCurve(data, h) ==
  /\ Bracketing(data.flowRateByHead, h) # {}
  /\ \A j \in Bracketing(data.flowRateByHead, h) :
       ActualFlowRate(data, h) = OnSegment(data.flowRateByHead[j], data.flowRateByHead[j + 1], h)
  /\ Geq(ActualFlowRate(data, h), data.flowRateByHead[Len(data.flowRateByHead)].flowRate)
  /\ data.flowRateByHead[Len(data.flowRateByHead)].flowRate = Num(1)
  /\ Leq(ActualFlowRate(data, h), data.maxFlow)
  /\ data.maxFlow = Num(5)
  /\ Leq(NextHead(h), data.maxHead) => Leq(ActualFlowRate(data, NextHead(h)), ActualFlowRate(data, h))

\* C7: for every catalog model and every head up to its maxHead, the flow
\* findSuitablePump computes is the linear interpolation between the bracketing points,
\* lies between 1.0 and 5.0 and is non-increasing in the head; the flow it reports for
\* the model it returns is that flow; 4S48V50C gives 4.5 at 70 ft and is accepted at
\* 70 ft only when requiredGPM <= 4.5.
C7_LinearInterpolation ==
  Returned("findSuitablePump")
    => /\ \A i \in 1..Len(pumpData) :
            Leq(call.requiredHead, pumpData[i].maxHead) => FlowOnCurve(pumpData[i], call.requiredHead)
       /\ IsDef(Val(result))
            => \E i \in 1..Len(pumpData) :
                 /\ pumpData[i].model = Val(Val(result)).model
                 /\ Val(Val(result)).flowRate = ActualFlowRate(pumpData[i], call.requiredHead)
       /\ ActualFlowRate(Pump4S, Num(70)) = Rat(45, 10)
       /\ call.requiredHead = Num(70)
            => ( (\E k \in 1..Len(SuitablePumps(call.requiredGPM, call.requiredHead)) :
                    SuitablePumps(call.requiredGPM, call.requiredHead)[k].model = "4S48V50C")
                 <=> Leq(call.requiredGPM, Rat(45, 10)) )

\* 4.5 GPM at 70 ft: the four-stage model is returned with a flow of exactly 4.5
C7_Witness ==
  /\ Returned("findSuitablePump")
  /\ call.requiredGPM = Rat(45, 10)
  /\ call.requiredHead = Num(70)
  /\ IsDef(Val(result))
  /\ Val(Val(result)).model = "4S48V50C"
  /\ Val(Val(result)).flowRate = Rat(45, 10)

\* what findSuitablePump returns for the flow and head calculateRecommendation computes
CurveChoice(data) ==
  findSuitablePump(calculateWaterRequirements(data).requiredGPM,
                   TotalDynamicHead(data, calculateWaterRequirements(data)))

\* C8: for a record that is not disqualified, calculateRecommendation recommends the
\* model findSuitablePump returns for its requiredGPM and TDH, and reports 'no
\* standard pump' exactly when findSuitablePump returns none.
C8_UsesCurveSelector ==
  ( Returned("calculateRecommendation") /\ NotDisqualified(call.data) )
    => /\ Val(result).isValid <=> IsDef(CurveChoice(call.data))
       /\ Val(result).isValid => Val(result).pumpDetails.model = Val(CurveChoice(call.data)).model
       /\ ~Val(result).isValid => Val(result).message = NoPumpMessage

\* some catalog model has maxFlow >= requiredGPM and maxHead >= tdh
SomeModelLargeEnough(requiredGPM, tdh) ==
  \E i \in 1..Len(pumpData) :
    Geq(pumpData[i].maxFlow, requiredGPM) /\ Geq(pumpData[i].maxHead, tdh)

\* C9: for a record that is not disqualified, calculateRecommendation returns
\* isValid = true naming one of the six catalog models whenever some catalog model
\* meets requiredGPM at the TDH, and the no-standard-pump message when no model is
\* large enough.
C9_ValidWhenCatalogCan ==
  ( Returned("calculateRecommendation") /\ NotDisqualified(call.data) )
    => /\ Qualifying(calculateWaterRequirements(call.data).requiredGPM,
                     TotalDynamicHead(call.data, calculateWaterRequirements(call.data))) # {}
            => /\ Val(result).isValid
               /\ \E i \in 1..Len(pumpData) : Val(result).pumpDetails.model = pumpData[i].model
       /\ ~SomeModelLargeEnough(calculateWaterRequirements(call.data).requiredGPM,
                                TotalDynamicHead(call.data, calculateWaterRequirements(call.data)))
            => Val(result) = [ isValid |-> FALSE, message |-> NoPumpMessage ]

\* C10: for a model of s stages, powerRequired = 53 * s; panelsRequired is
\* ceil(powerRequired / 100) raised by one if odd: it is even, at least 2, the smallest
\* even count with panelsRequired * 100 >= powerRequired; wattage = panelsRequired * 100
\* and voltage = 48; 3 stages give 2 panels and 4 stages give 4. (Checked on the
\* arithmetic itself: the server's selection loop never selects a model, see C9.)
C10_EvenPanels ==
  Returned("solar")
    => /\ Val(result).powerRequired = 53 * call.pumpStages
       /\ Val(result).panelsRequired % 2 = 0
       /\ Val(result).panelsRequired >= 2
       /\ Val(result).panelsRequired * 100 >= Val(result).powerRequired
       /\ \A n \in 0..(Val(result).panelsRequired - 1) :
            n % 2 = 0 => n * 100 < Val(result).powerRequired
       /\ \E c \in 0..Val(result).panelsRequired :
            /\ c * 100 >= Val(result).powerRequired
            /\ (c - 1) * 100 < Val(result).powerRequired
            /\ Val(result).panelsRequired = IF c % 2 = 1 THEN c + 1 ELSE c
       /\ Val(result).wattage = Val(result).panelsRequired * 100
       /\ Val(result).voltage = 48
       /\ call.pumpStages = 3 => Val(result).panelsRequired = 2
       /\ call.pumpStages = 4 => Val(result).panelsRequired = 4

\* four stages: 212 W, three panels raised to four
C10_Witness ==
  /\ Returned("solar")
  /\ call.pumpStages = 4
  /\ Val(result).powerRequired = 212
  /\ Val(result).panelsRequired = 4

\* a level or a length that was not recorded counts as 0
Recorded(f) == IF IsDef(f) THEN Val(f) ELSE Num(0)

\* staticWaterLevel + drawdownLevel + elevationGain
LevelsSum(data) ==
  Add(Add(Recorded(data.staticWaterLevel), Recorded(data.drawdownLevel)),
      Recorded(data.elevationGain))

\* 0.02 * (pipeLength / pipeSize) * requiredGPM^2
FrictionFormula(requiredGPM, pipeLength, pipeSize) ==
  Div(Mul(Mul(Rat(2, 100), pipeLength), Mul(requiredGPM, requiredGPM)), pipeSize)

\* dailyGallons / (5.4 * 60) for the record
RequiredGPM(data) == calculateWaterRequirements(data).requiredGPM

NoRuleUsage == { USAGE_TYPES.UNKNOWN, USAGE_TYPES["OTHER"] }

\* requiredGPM = dailyGallons / (5.4 * 60) and peakSunHours = 5.4
FlowFromGallons(waterReq) ==
  /\ waterReq.requiredGPM = Div(waterReq.dailyGallons, Num(324))
  /\ waterReq.peakSunHours = Rat(27, 5)

NonZeroGPD(data) == IsDef(data.customGPD) /\ Val(data.customGPD) # Num(0)

SpeciesWords == << "dairy", "horse", "goat", "sheep" >>

SpeciesOf == << "dairy", "horses", "goats", "sheep" >>

\* gallons per day per head
PerHead ==
  [ beef |-> Num(22), dairy |-> Num(32), horses |-> Rat(27, 2), goats |-> Num(4), sheep |-> Num(4) ]

\* the positions of the words the description contains
SpeciesFound(text) ==
  { i \in 1..Len(SpeciesWords) : IsDef(text) /\ Includes(ToLower(Val(text)), SpeciesWords[i]) }

\* the species of the first word found, beef when none is
Species(text) ==
  IF SpeciesFound(text) = {} THEN "beef"
  ELSE SpeciesOf[CHOOSE i \in SpeciesFound(text) : \A k \in SpeciesFound(text) : i <= k]

\* C13: with usageType = livestock and no customGPD, dailyGallons is the per-head rate
\* of the species times animalCount (0 when no count is recorded), the species being
\* the first of dairy, horse, goat, sheep the description mentions and beef otherwise,
\* at 22, 32, 13.5, 4 and 4 gallons for beef, dairy, horses, goats and sheep; 20 dairy
\* cows need 640 gallons a day, 640 / 324 GPM.
C13_LivestockDemand ==
  ( /\ Returned("calculateWaterRequirements")
    /\ call.data.usageType = USAGE_TYPES.LIVESTOCK
    /\ ~IsDef(call.data.customGPD) )
    => /\ Val(result).dailyGallons =
            Mul(PerHead[Species(call.data.livestockType)], Recorded(call.data.animalCount))
       /\ ( Species(call.data.livestockType) = "dairy" /\ call.data.animalCount = Some(Num(20)) )
            => /\ Val(result).dailyGallons = Num(640)
               /\ Val(result).requiredGPM = Rat(640, 324)

\* 20 head of a herd described as dairy cows and horses: dairy comes first, 640 gallons
C13_Witness ==
  /\ Returned("calculateWaterRequirements")
  /\ call.data.usageType = USAGE_TYPES.LIVESTOCK
  /\ ~IsDef(call.data.customGPD)
  /\ call.data.livestockType = Some("Dairy cows and horses")
  /\ call.data.animalCount = Some(Num(20))
  /\ Val(result).dailyGallons = Num(640)

\* gallons per acre per day by method, sprinkler when no method was recognised
BaseRate(method) ==
  IF method = Some("drip") THEN Num(600)
  ELSE IF method = Some("flood") THEN Num(2400)
  ELSE Num(1200)

\* the multiplier by crop category, that of fruits when no category was recognised
CropMultiplier(category) ==
  IF category = Some("vegetables") THEN Rat(12, 10)
  ELSE IF category = Some("lawn") THEN Rat(15, 10)
  ELSE Num(1)

\* C14: with usageType = irrigation and no customGPD, for every recorded irrigationArea
\* a >= 0, a = 0 included, dailyGallons = baseRate[method] * a * cropMultiplier[category].
C14_IrrigationDemand ==
  ( /\ Returned("calculateWaterRequirements")
    /\ call.data.usageType = USAGE_TYPES.IRRIGATION
    /\ ~IsDef(call.data.customGPD)
    /\ IsDef(call.data.irrigationArea)
    /\ Geq(Val(call.data.irrigationArea), Num(0)) )
    => Val(result).dailyGallons =
         Mul(Mul(BaseRate(call.data.irrigationMethod), Val(call.data.irrigationArea)),
             CropMultiplier(call.data.cropCategory))

\* the fixtures text mentions the word
FixturesMention(data, word) ==
  IsDef(data.fixturesInfo) /\ Includes(ToLower(Val(data.fixturesInfo)), word)

\* amount when the fixtures text mentions the word, 0 otherwise
AddOn(data, word, amount) == IF FixturesMention(data, word) THEN amount ELSE 0

\* the garden add-on: 600 for a large garden, else 300 for a medium one, else 100
GardenAddOn(data) ==
  IF ~FixturesMention(data, "garden") THEN 0
  ELSE IF FixturesMention(data, "large") THEN 600
  ELSE IF FixturesMention(data, "medium") THEN 300
  ELSE 100

\* C15: with usageType = household and no customGPD, dailyGallons =
\* peopleCount * 80 + bathroomCount * 100 + 50 if the fixtures text mentions kitchen
\* + 30 if it mentions laundry + the garden add-on (600 large, else 300 medium, else
\* 100) if it mentions garden; a missing peopleCount or bathroomCount counts as 0.
C15_HouseholdDemand ==
  ( /\ Returned("calculateWaterRequirements")
    /\ call.data.usageType = USAGE_TYPES.HOUSEHOLD
    /\ ~IsDef(call.data.customGPD) )
    => Val(result).dailyGallons =
         Add(Add(Mul(Recorded(call.data.peopleCount), Num(80)),
                 Mul(Recorded(call.data.bathroomCount), Num(100))),
             Num(AddOn(call.data, "kitchen", 50) + AddOn(call.data, "laundry", 30)
                 + GardenAddOn(call.data)))

\* two people, two bathrooms and a garden said to be large or medium: 160 + 200 + 600
C15_Witness ==
  /\ Returned("calculateWaterRequirements")
  /\ call.data.usageType = USAGE_TYPES.HOUSEHOLD
  /\ ~IsDef(call.data.customGPD)
  /\ call.data.peopleCount = Some(Num(2))
  /\ call.data.bathroomCount = Some(Num(2))
  /\ call.data.fixturesInfo = Some("a large or medium garden")
  /\ Val(result).dailyGallons = Num(960)

(***************************************************************************)
(* The stage handlers (Spec)                                               *)
(***************************************************************************)
\* the message holds a digit
HoldsDigit(m) == \E i \in 1..Len(m) : IsDigit(CharAt(m, i))

\* the first number of each message that holds one
FirstNumber ==
  ("50 gpd" :> 50) @@ ("0 gpd" :> 0) @@ ("80 ft" :> 80) @@ ("100" :> 100) @@ ("4 inch" :> 4)

\* the message takes the custom-override short-circuit, not the case of the stage
TakesOverride(s, m) == CustomSkip(s.currentStage, ExtractCustom(s.data, m))

\* one tenth of the static water level the session holds
TenthOfStatic == Mul(ToNumber(session.data.staticWaterLevel), Rat(1, 10))

\* the session has become as the claim says after m was handled at DRAWDOWN
DrawdownHandled(m, after) ==
  /\ after.currentStage = STAGES.ELEVATION
  /\ HoldsDigit(m) => after.data.drawdownLevel = Some(Num(FirstNumber[m]))
  /\ ~HoldsDigit(m)
       => /\ after.data.drawdownLevel = Some(TenthOfStatic)
          /\ after.data.drawdownEstimated = Some(TRUE)
          /\ session.data.staticWaterLevel = Some(Num(100))
               => after.data.drawdownLevel = Some(Num(10))

Contains(m, word) == Includes(ToLower(m), word)

\* the correction keywords in the order the summary handler looks for them, the stage
\* each group names and the usage type it belongs to ("any": every usage type)
Corrections ==
  << [ words |-> {"location"}, stage |-> STAGES.LOCATION, usage |-> "any" ],
     [ words |-> {"livestock", "animal"}, stage |-> STAGES.LIVESTOCK_TYPE,
       usage |-> USAGE_TYPES.LIVESTOCK ],
     [ words |-> {"people", "house"}, stage |-> STAGES.PEOPLE_COUNT,
       usage |-> USAGE_TYPES.HOUSEHOLD ],
     [ words |-> {"irrigation", "crop"}, stage |-> STAGES.IRRIGATION_AREA,
       usage |-> USAGE_TYPES.IRRIGATION ],
     [ words |-> {"well"}, stage |-> STAGES.WELL_DEPTH, usage |-> "any" ],
     [ words |-> {"static"}, stage |-> STAGES.STATIC_WATER, usage |-> "any" ],
     [ words |-> {"drawdown"}, stage |-> STAGES.DRAWDOWN, usage |-> "any" ],
     [ words |-> {"elevation"}, stage |-> STAGES.ELEVATION, usage |-> "any" ],
     [ words |-> {"pipe"}, stage |-> STAGES.PIPE_INFO, usage |-> "any" ],
     [ words |-> {"tank"}, stage |-> STAGES.STORAGE_TANK, usage |-> "any" ],
     [ words |-> {"quality", "sand"}, stage |-> STAGES.WATER_QUALITY, usage |-> "any" ],
     [ words |-> {"casing"}, stage |-> STAGES.WELL_CASING, usage |-> "any" ] >>

\* the groups with a keyword the reply contains and that apply to the session
Applicable(data, m) ==
  { i \in 1..Len(Corrections) :
      /\ \E w \in Corrections[i].words : Contains(m, w)
      /\ Corrections[i].usage \in {"any", data.usageType} }

\* the reply is an affirmative one
Affirms(m) ==
  \/ Contains(m, "yes")
  \/ Contains(m, "correct")
  \/ Contains(m, "right")
  \/ Contains(m, "look") /\ Contains(m, "good")

\* the stage the claim sends a session at SUMMARY to
RoutedStage(data, m) ==
  IF Affirms(m) THEN STAGES.RECOMMENDATION
  ELSE IF Applicable(data, m) = {} THEN STAGES.SUMMARY
  ELSE Corrections[CHOOSE i \in Applicable(data, m) : \A k \in Applicable(data, m) : i <= k].stage

\* C17: at SUMMARY an affirmative reply moves the session to RECOMMENDATION; any other
\* reply moves it to the stage of the first correction keyword it contains that applies
\* to the session, and leaves it at SUMMARY only when it contains none.
C17_SummaryRouting ==
  session.currentStage = STAGES.SUMMARY
    => \A m \in Messages :
         processUserInput(session, m).currentStage = RoutedStage(session.data, m)

(***************************************************************************)
(* The recommendation step of the chat handler (Spec)                      *)
(***************************************************************************)
\* C18: once session.data.recommendation is populated, a later turn neither computes
\* the recommendation again nor changes the stored one, unless the user confirms again
\* at SUMMARY; a message received at RECOMMENDATION leaves it as it is.
C18_ComputedOnce ==
  [][ ( /\ IsDef(session.data.recommendation)
        /\ session.currentStage # STAGES.SUMMARY )
        => /\ call'.fn # "calculateRecommendation"
           /\ session'.data.recommendation = session.data.recommendation ]_vars

(***************************************************************************)
(* The session record (Spec)                                               *)
(***************************************************************************)
\* C19: once usageType holds a value other than unknown, no message changes it to
\* another value, except the custom-override short-circuit, which forces it to other.
C19_UsageTypeSetOnce ==
  [][ ( /\ session.data.usageType # USAGE_TYPES.UNKNOWN
        /\ session'.data.usageType # session.data.usageType )
        => ( session'.data.usageType = USAGE_TYPES["OTHER"] /\ OverrideJump ) ]_vars

\* the numeric fields the case of each stage is to fill in
OwnedFields(stage) ==
  CASE stage = STAGES.ANIMAL_COUNT -> {"animalCount"}
    [] stage = STAGES.PEOPLE_COUNT -> {"peopleCount"}
    [] stage = STAGES.FIXTURES_COUNT -> {"bathroomCount"}
    [] stage = STAGES.IRRIGATION_AREA -> {"irrigationArea"}
    [] stage = STAGES.CUSTOM_FLOW -> {"customGPD"}
    [] stage = STAGES.CUSTOM_HEAD -> {"customHead"}
    [] stage = STAGES.WELL_DEPTH -> {"wellDepth"}
    [] stage = STAGES.STATIC_WATER -> {"staticWaterLevel"}
    [] stage = STAGES.DRAWDOWN -> {"drawdownLevel"}
    [] stage = STAGES.ELEVATION -> {"elevationGain"}
    [] stage = STAGES.PIPE_INFO -> {"pipeLength", "pipeSize"}
    [] stage = STAGES.WELL_CASING -> {"wellCasingSize"}
    [] OTHER -> {}

\* the field holds a number
HoldsNumber(f) == IsDef(f) /\ ~IsNaN(Val(f))

\* C20: after the case of a stage has handled a message, every numeric field the stage
\* owns holds a number (0 or an estimate when the message held none), never undefined.
\* (A message that takes the short-circuit of C2 is not handled by the case.)
C20_OwnedFieldsHoldNumbers ==
  [][ ~OverrideJump
        => \A field \in OwnedFields(session.currentStage) :
             HoldsNumber(session'.data[field]) ]_vars

(***************************************************************************)
(* The default progression (Spec)                                          *)
(***************************************************************************)
\* the stages whose handler may leave the session where it is
HoldingStages == { STAGES.USAGE_TYPE, STAGES.SUMMARY, STAGES.RECOMMENDATION }

\* the stages that follow a stage in the stage graph
Successors(stage) == { e[2] : e \in { d \in StageEdges : d[1] = stage } }

\* C21: in every stage other than USAGE_TYPE, SUMMARY and RECOMMENDATION, processing
\* any message whatsoever moves the session to a different stage, a successor of the
\* stage it was in.
C21_DefaultProgression ==
  session.currentStage \notin HoldingStages
    => \A m \in Messages :
         LET after == processUserInput(session, m).currentStage
         IN  after # session.currentStage /\ after \in Successors(session.currentStage)

(***************************************************************************)
(* The branches after LOCATION (Spec)                                      *)
(***************************************************************************)
\* the length of the conversations looked at from GREETING
MaxTurns == 3

\* the sessions a conversation of n messages from GREETING can be in
RECURSIVE After(_)
After(n) ==
  IF n = 0 THEN { NewSession }
  ELSE { processUserInput(s, m) : s \in After(n - 1), m \in Messages }

\* the first stage of each branch after LOCATION
BranchEntries ==
  { STAGES.LIVESTOCK_TYPE, STAGES.PEOPLE_COUNT, STAGES.IRRIGATION_AREA, STAGES.CUSTOM_FLOW }

\* C22, the reachability it asserts: each of the four branches after LOCATION, the
\* custom branch CUSTOM_FLOW -> CUSTOM_HEAD included, is entered by some conversation
\* that starts at GREETING.
C22_EveryBranchReachable ==
  session = NewSession
    => \A entry \in BranchEntries :
         \E s \in After(MaxTurns) : s.currentStage = entry

(***************************************************************************)
(* The common sequence WELL_DEPTH ... WELL_CASING (Spec)                   *)
(***************************************************************************)
\* the messages that mention 'stock tank' or 'directly'
DirectReplies == { m \in Messages : Contains(m, "stock tank") \/ Contains(m, "directly") }

\* the session has become as the claim says after m was handled at ELEVATION
ElevationHandled(m, after) ==
  /\ ( after.currentStage = STAGES.WATER_QUALITY /\ after.data.directToStockTank = Some(TRUE) )
       <=> m \in DirectReplies
  /\ m \notin DirectReplies => after.currentStage = STAGES.PIPE_INFO

CommonSequence ==
  << STAGES.WELL_DEPTH, STAGES.STATIC_WATER, STAGES.DRAWDOWN, STAGES.ELEVATION,
     STAGES.PIPE_INFO, STAGES.STORAGE_TANK, STAGES.WATER_QUALITY, STAGES.WELL_CASING >>

CommonStages == { CommonSequence[i] : i \in 1..Len(CommonSequence) }

\* the place of a stage in the common sequence
Place(stage) == CHOOSE i \in 1..Len(CommonSequence) : CommonSequence[i] = stage

\* the step goes forward within the common sequence
Forward ==
  /\ session.currentStage \in CommonStages
  /\ session'.currentStage \in CommonStages
  /\ Place(session'.currentStage) > Place(session.currentStage)

\* the step is the direct-to-stock-tank skip
DirectSkip ==
  /\ session.currentStage = STAGES.ELEVATION
  /\ session'.currentStage = STAGES.WATER_QUALITY
  /\ session'.data.directToStockTank = Some(TRUE)

\* C23: the message the ELEVATION case handles moves the session to WATER_QUALITY and
\* sets directToStockTank = true if and only if it mentions 'stock tank' or 'directly',
\* and otherwise to PIPE_INFO, from where the next messages lead to STORAGE_TANK and
\* then WATER_QUALITY; apart from this skip, every step forward within the common
\* sequence WELL_DEPTH ... WELL_CASING goes to the next stage of the sequence, the
\* sequence is entered from the usage branches at WELL_DEPTH and left for SUMMARY
\* from WELL_CASING. (A message that completes customGPD and customHead takes the
\* custom-override jump and is not handled by the case.)
C23_DirectSkipOnly ==
  /\ [](\A m \in Messages :
          ~TakesOverride(session, m)
            => LET after == processUserInput(session, m)
               IN  /\ session.currentStage = STAGES.ELEVATION => ElevationHandled(m, after)
                   /\ session.currentStage = STAGES.PIPE_INFO
                        => after.currentStage = STAGES.STORAGE_TANK
                   /\ session.currentStage = STAGES.STORAGE_TANK
                        => after.currentStage = STAGES.WATER_QUALITY)
  /\ [][ /\ Forward
            => \/ Place(session'.currentStage) = Place(session.currentStage) + 1
               \/ DirectSkip
         /\ ( /\ session.currentStage \notin CommonStages \cup { STAGES.SUMMARY }
              /\ session'.currentStage \in CommonStages )
            => session'.currentStage = STAGES.WELL_DEPTH
         /\ ( /\ session.currentStage \in CommonStages
              /\ session'.currentStage \notin CommonStages )
            => ( /\ session.currentStage = STAGES.WELL_CASING
                 /\ session'.currentStage = STAGES.SUMMARY ) ]_vars

\* the skip was taken, and after a correction of the summary the session came to
\* WATER_QUALITY again, through STORAGE_TANK
C23_Witness ==
  /\ session.currentStage = STAGES.WATER_QUALITY
  /\ session.data.directToStockTank = Some(TRUE)
  /\ IsDef(session.data.hasStorageTank)
  /\ IsDef(session.data.wellCasingSize)

(***************************************************************************)
(* The chat requests of server.js (SpecServer)                             *)
(***************************************************************************)
\* the requests that have been received and not answered
InFlight == DOMAIN server.requests

\* C24: two chat requests for the same session id never interleave: while a request
\* that has appended its message to the session awaits its lookup or its text
\* generation, no other request for that session id has been received, appended its
\* message and begun to await.
C24_SameSessionSerialized ==
  \A q \in InFlight, r \in InFlight :
    q # r => server.requests[q].sessionId # server.requests[r].sessionId

\* the step answers request r
Answers(r) == r \in InFlight /\ r \notin DOMAIN server'.requests

\* the transcript of the session object request r holds, before and after the step
TranscriptOf(r) == server.heap[server.requests[r].session].messages

TranscriptAfter(r) == server'.heap[server.requests[r].session].messages

\* C25: within one chat turn the text generation is called at most 3 times; the turn
\* whose call succeeds is answered at once with the reply (200) and exactly one
\* assistant message is appended to its transcript; a turn is answered with an error
\* (500) only after 3 calls have failed, and then nothing is appended: the transcript,
\* which holds the user's message, and the session store are as they were, so that
\* the session is there for the next turn.
C25_BoundedRetry ==
  /\ [](\A r \in InFlight : server.requests[r].calls <= 3)
  /\ [][ \A r \in InFlight :
           Answers(r)
             => \/ /\ server'.response = [ request |-> r, status |-> 200 ]
                   /\ TranscriptAfter(r)
                        = Append(TranscriptOf(r), [ role |-> "assistant", content |-> "reply" ])
                \/ /\ server'.response = [ request |-> r, status |-> 500 ]
                   /\ server.requests[r].calls = 3
                   /\ server.requests[r].retryCount = 2
                   /\ server'.heap = server.heap
                   /\ server'.sessions = server.sessions
                   /\ \E i \in 1..Len(TranscriptOf(r)) : TranscriptOf(r)[i].role = "user" ]_vars

\* a turn was answered, and the next turn of the same session failed after its three
\* attempts: the transcript holds its message and no second reply
C25_Witness ==
  /\ server.response = [ request |-> 2, status |-> 500 ]
  /\ InFlight = {}
  /\ Len(server.heap) = 1
  /\ server.heap[1].messages
       = << [ role |-> "user", content |-> "Hi" ], [ role |-> "assistant", content |-> "reply" ],
            [ role |-> "user", content |-> "Texas" ] >>

\* the step receives a request and rejects it as malformed
Rejects ==
  /\ server'.arrived = server.arrived + 1
  /\ server'.response = [ request |-> server'.arrived, status |-> 400 ]

\* C26: a request that is answered as malformed (400: message missing, not a string
\* or empty, session id missing or shorter than 5 characters, message longer than 500
\* characters) leaves the session store exactly as it was: no session is created, no
\* lastAccessed is refreshed, no message is appended.
C26_RejectedLeavesStore ==
  [][ Rejects => server'.sessions = server.sessions /\ server'.heap = server.heap ]_vars

\* the step is the end of the solar lookup of request r
LookupEnds(r) ==
  /\ r \in InFlight
  /\ server.requests[r].pc = "lookup"
  /\ server' # server
  /\ r \in DOMAIN server'.requests => server'.requests[r] # server.requests[r]

\* after the lookup, request r awaits its first call of the text generation, and
\* nothing else has happened: no response was sent and the store is as it was
GoesOnToGenerate(r) ==
  /\ r \in DOMAIN server'.requests
  /\ server'.requests[r].pc = "generate"
  /\ server'.requests[r].calls = 1
  /\ server'.requests[r].solar \in { Undefined, Some("5.5 kWh/m2/day") }
  /\ server'.response = server.response
  /\ server'.heap = server.heap
  /\ server'.sessions = server.sessions

Stored == DOMAIN server.sessions

\* the session object the store holds for an id
ObjectOf(id) == server.heap[server.sessions[id]]

\* the step deletes sessions from the store
Deletes == DOMAIN server'.sessions # Stored /\ DOMAIN server'.sessions \subseteq Stored

\* the step receives a request for the id and lets it in: the request awaits
Lets(id) ==
  /\ server'.arrived = server.arrived + 1
  /\ server'.arrived \in DOMAIN server'.requests
  /\ server'.requests[server'.arrived].sessionId = id

\* C28: a sweep deletes exactly the sessions whose lastAccessed lies more than 24 hours
\* (SESSION_TTL) before the time of the sweep; every request that is let in sets the
\* lastAccessed of its session to the time it is received, so that no session is
\* deleted while a request that was received within the last 24 hours is in flight
\* for it; and a request for an id the store does not hold gets a fresh session: at
\* GREETING, with a transcript that holds its own message alone and no data but the
\* location found in that message.
C28_ExpiryAfterIdleTTL ==
  [][ /\ Deletes
         => /\ DOMAIN server'.sessions
                 = { id \in Stored : server.now - ObjectOf(id).lastAccessed <= SESSION_TTL }
            /\ server'.heap = server.heap
            /\ \A r \in InFlight :
                 server.requests[r].sessionId \notin DOMAIN server'.sessions
                   => server.now - server.requests[r].receivedAt > SESSION_TTL
      /\ \A id \in { "ranch", "ranch-2" } :
           Lets(id)
             => /\ server'.requests[server'.arrived].receivedAt = server.now
                /\ server'.heap[server'.sessions[id]].lastAccessed = server.now
                /\ id \notin Stored
                     => /\ server'.sessions[id] = Len(server.heap) + 1
                        /\ server'.heap[server'.sessions[id]].currentStage = "GREETING"
                        /\ Len(server'.heap[server'.sessions[id]].messages) = 1
                        /\ server'.heap[server'.sessions[id]].data.location
                             \in { Undefined, Some("Texas"), Some("Austin") } ]_vars

\* a session that was swept after 36 idle hours has started again, fresh; the object
\* of the old conversation is no longer in the store
C28_Witness ==
  /\ Len(server.heap) = 2
  /\ Stored = { "ranch" }
  /\ server.sessions["ranch"] = 2
  /\ server.heap[1].lastAccessed = 1
  /\ server.heap[2].lastAccessed = 4
  /\ server.heap[2].currentStage = "GREETING"
  /\ server.now = 4

(***************************************************************************)
(* The start of server.js (SpecServer)                                     *)
(***************************************************************************)
\* C29: the process never serves chat requests from a substituted default catalog:
\* when it serves, the catalog is the one loaded from the workbook (a start at which
\* the catalog cannot be loaded ends the process).
C29_ServesLoadedCatalogOnly ==
  server.status = "serving" => server.pumpData = "workbook"

(***************************************************************************)
(* The session store of part_000 (SpecStore)                               *)
(***************************************************************************)
\* the step is a step of the handler in a turn of the session id: the request of the
\* turn is received, one of its lookups returns, or it is answered
TurnOf(id) ==
  \/ /\ server'.arrived = server.arrived + 1
     /\ server'.arrived \in DOMAIN server'.requests
     /\ server'.requests[server'.arrived].sessionId = id
  \/ \E r \in InFlight :
       /\ server.requests[r].sessionId = id
       /\ Answers(r) \/ server'.requests[r] # server.requests[r]

\* C30: processing a chat turn of session A (the message append, the extraction, the
\* stage change, the reply, the recommendation) leaves the transcript, currentStage
\* and data of every other session B as they were, however the turns of the sessions
\* interleave.
C30_OtherSessionsUntouched ==
  [][ \A a \in StoreIds :
        TurnOf(a)
          => \A b \in DOMAIN server.sessions \ { a } :
               /\ b \in DOMAIN server'.sessions
               /\ server'.sessions[b] = server.sessions[b] ]_vars

\* the turn of one session that was asked for its recommendation and a turn of
\* another session have interleaved: the first holds its recommendation, the second
\* its own first answer
C30_Witness ==
  /\ DOMAIN server.sessions = { "ranch", "ranch-2" }
  /\ server.sessions["ranch"].currentStage = STAGES.RECOMMENDATION
  /\ IsDef(server.sessions["ranch"].data.recommendation)
  /\ server.sessions["ranch-2"].currentStage = STAGES.USAGE_TYPE
  /\ server.sessions["ranch-2"].data.usageType = USAGE_TYPES.LIVESTOCK
  /\ ~IsDef(server.sessions["ranch-2"].data.recommendation)
  /\ Len(server.sessions["ranch-2"].messages) = 2

(***************************************************************************)
(* The extraction as a function of stage, data and message (SpecStore)     *)
(***************************************************************************)
\* the currentStage and the data of a session object
Facts(s) == [ currentStage |-> s.currentStage, data |-> s.data ]

\* the step receives a request of the session id
Receives(id) ==
  /\ server'.arrived = server.arrived + 1
  /\ server'.arrived \in DOMAIN server'.requests
  /\ server'.requests[server'.arrived].sessionId = id

\* the message of the request the step receives for the session id
Received(id) == server'.sessions[id].messages[Len(server'.sessions[id].messages)].content

WellFormed(p) ==
  /\ p.stages >= 1
  /\ p.voltage = 48
  /\ p.powerRequired = 53 * p.stages
  /\ Len(p.flowRateByHead) >= 2
  /\ p.flowRateByHead[1].head = Num(0)
  /\ p.flowRateByHead[1].flowRate = p.maxFlow
  /\ \A i \in 1..(Len(p.flowRateByHead) - 1) :
       /\ Lt(p.flowRateByHead[i].head, p.flowRateByHead[i + 1].head)
       /\ Geq(p.flowRateByHead[i].flowRate, p.flowRateByHead[i + 1].flowRate)
  /\ p.flowRateByHead[Len(p.flowRateByHead)].head = p.maxHead

\* C32: every model of the catalog has stages >= 1, voltage 48, powerRequired =
\* 53 * stages and a curve that starts at head 0 with flow maxFlow, has strictly
\* increasing heads and non-increasing flows and ends at head maxHead; maxHead
\* increases strictly with the stage count; so the interpolation of a call of
\* findSuitablePump never divides by zero: the flow of every model that is not
\* skipped is a number.
C32_CatalogWellFormed ==
  /\ \A i \in 1..Len(pumpData) : WellFormed(pumpData[i])
  /\ \A i, j \in 1..Len(pumpData) :
       pumpData[i].stages < pumpData[j].stages => Lt(pumpData[i].maxHead, pumpData[j].maxHead)
  /\ Returned("findSuitablePump")
       => \A i \in 1..Len(pumpData) :
            Leq(call.requiredHead, pumpData[i].maxHead)
              => ~IsNaN(ActualFlowRate(pumpData[i], call.requiredHead))

\* 4.5 GPM at 17.5 ft, a head inside the second segment of the one-stage curve: the
\* one-stage model is returned with the interpolated flow 4.5
C32_Witness ==
  /\ Returned("findSuitablePump")
  /\ call.requiredGPM = Rat(45, 10)
  /\ call.requiredHead = Rat(175, 10)
  /\ IsDef(Val(result))
  /\ Val(Val(result)).model = "1S48V50C"
  /\ Val(Val(result)).flowRate = Rat(45, 10)

(***************************************************************************)
(* The history of a session of server.js (SpecHistory)                     *)
(***************************************************************************)
\* the step answers request r with a reply
Replies(r) == Answers(r) /\ server'.response = [ request |-> r, status |-> 200 ]

\* the transcript of request r with the reply pushed
WithReply(r) == Append(TranscriptOf(r), [ role |-> "assistant", content |-> "reply" ])

\* the n most recent messages of a transcript, in their order
MostRecent(messages, n) == [ i \in 1..n |-> messages[Len(messages) - n + i] ]

\* C33: after every chat turn that returns a reply the transcript of the session holds
\* at most 20 messages: a transcript that exceeds 20 messages with the reply is cut to
\* its 18 most recent messages, in their order, the reply being the last of them, and
\* a transcript that does not is kept whole.
C33_HistoryBound ==
  [][ \A r \in InFlight :
        Replies(r)
          => /\ Len(TranscriptAfter(r)) <= 20
             /\ Len(WithReply(r)) > 20 => TranscriptAfter(r) = MostRecent(WithReply(r), 18)
             /\ Len(WithReply(r)) <= 20 => TranscriptAfter(r) = WithReply(r)
             /\ TranscriptAfter(r)[Len(TranscriptAfter(r))]
                  = [ role |-> "assistant", content |-> "reply" ] ]_vars

\* a session of 20 messages has taken one more turn: its transcript was cut to the 18
\* most recent messages, from the fourth message of the history to the reply of the turn
C33_Witness ==
  /\ server.response = [ request |-> 1, status |-> 200 ]
  /\ Len(server.heap[1].messages) = 18
  /\ server.heap[1].messages[1] = History(MaxExchanges)[5]
  /\ server.heap[1].messages[16] = History(MaxExchanges)[20]
  /\ server.heap[1].messages[17] = [ role |-> "user", content |-> "Hi" ]
  /\ server.heap[1].messages[18] = [ role |-> "assistant", content |-> "reply" ]

(***************************************************************************)
(* The rate limit of server.js (SpecLimit)                                 *)
(***************************************************************************)
\* the requests of the ip passed on to the routes at the times from..to
RECURSIVE PassedBetween(_, _, _)
PassedBetween(ip, from, to) ==
  IF from > to THEN 0 ELSE server.admitted[ip][to] + PassedBetween(ip, from, to - 1)

\* the window of the ip has begun and has not ended
WindowOpen(ip) ==
  /\ ip \in DOMAIN server.requestCounts
  /\ server.now <= server.requestCounts[ip].resetTime

\* the requests of the ip passed on in its window so far
PassedInWindow(ip) ==
  PassedBetween(ip, server.requestCounts[ip].resetTime - RATE_LIMIT_WINDOW, server.now)

\* the step takes a request of the ip
Asks(ip) == server'.arrived = server.arrived + 1 /\ server'.response.ip = ip

\* a request in an open window that has passed 10 on is answered 429 and goes to no
\* route, with a retryAfter of at least least seconds; any other is passed on, and
\* one outside a window opens a window with count 1
LimitedWith(least) ==
  \A ip \in ClientIps :
        Asks(ip)
          => IF WindowOpen(ip) /\ PassedInWindow(ip) >= RATE_LIMIT_MAX
             THEN /\ server'.response.status = 429
                  /\ server'.response.retryAfter >= least
                  /\ server'.admitted = server.admitted
                  /\ server'.requestCounts = server.requestCounts
             ELSE /\ server'.response.status = 0
                  /\ server'.admitted[ip][server.now] = server.admitted[ip][server.now] + 1
                  /\ ~WindowOpen(ip)
                       => server'.requestCounts[ip]
                            = [ count |-> 1, resetTime |-> server.now + RATE_LIMIT_WINDOW ]

\* C34: for each client IP at most 10 requests are passed on to the routes within one
\* 60-second window; every further request in that window is answered 429 with a
\* positive retryAfter and reaches no route; the first request after the window has
\* ended is passed on and starts a new window with count 1.
C34_RateLimit ==
  /\ [](\A ip \in DOMAIN server.requestCounts :
          PassedBetween(ip, server.requestCounts[ip].resetTime - RATE_LIMIT_WINDOW,
                        IF server.now <= server.requestCounts[ip].resetTime
                        THEN server.now ELSE server.requestCounts[ip].resetTime)
            <= RATE_LIMIT_MAX)
  /\ [][LimitedWith(1)]_vars

\* the same with a retryAfter that may be 0
LimitedWithZero == [][LimitedWith(0)]_vars

(***************************************************************************)
(* The lookups of the location turn in part_000 (SpecStore)                *)
(***************************************************************************)
\* the step receives a request of the session id whose message is processed at
\* LOCATION and recorded as the location
RecordsLocation(id) ==
  /\ Receives(id)
  /\ StoreSession(server, id).currentStage = STAGES.LOCATION
  /\ server'.sessions[id].data.location = Some(Received(id))

\* C35: in the chat turn whose message is recorded as the user's location (the
\* message processed while the session is at LOCATION) the handler issues the solar
\* lookup for that location and, if the session has shared no local fact yet, the
\* local-fact lookup, before the reply of the turn is generated: the turn awaits the
\* solar lookup for the recorded location before it awaits the text generation, and
\* from the solar lookup it goes to the text generation through the local-fact lookup
\* unless a fact was shared.
C35_LookupsInLocationTurn ==
  /\ [][ \A id \in StoreIds :
           RecordsLocation(id)
             => /\ server'.requests[server'.arrived].pc = "solar"
                /\ server'.requests[server'.arrived].lookups
                     = << [ fn |-> "searchSolarInsolation", location |-> Some(Received(id)) ] >> ]_vars
  /\ [][ \A r \in InFlight :
           /\ server.requests[r].pc = "solar"
           /\ ~server.sessions[server.requests[r].sessionId].hasSharedLocalFact
           /\ server'.requests[r] # server.requests[r]
           => /\ server'.requests[r].pc = "localFact"
              /\ Len(server'.requests[r].lookups) = 2 ]_vars

\* the turns in which the solar lookup is issued are those that leave the session at
\* LOCATION with a location recorded earlier: the replies to the summary that ask to
\* correct the location
LookupsOnlyOnCorrection ==
  [][ \A id \in StoreIds :
        Receives(id) /\ server'.requests[server'.arrived].pc = "solar"
          => /\ StoreSession(server, id).currentStage = STAGES.SUMMARY
             /\ server'.sessions[id].data.location = StoreSession(server, id).data.location ]_vars

(***************************************************************************)
(* The pairing of messages and replies in part_000 (SpecStore)             *)
(***************************************************************************)
\* the transcript of the session of request r
StoreTranscript(r) == server.sessions[server.requests[r].sessionId].messages

\* C36: each assistant message is the reply to the user message immediately before
\* it, and the stage reported in the response of a turn is the stage the turn's own
\* message was processed to, however the requests of a session interleave and the
\* text generation fails: when a request is answered with a reply, the last message
\* of the transcript is its own message, and the response carries the stage its
\* message was processed to.
C36_ReplyPairing ==
  [][ \A r \in InFlight :
        Answers(r) /\ server'.response.status = 200
          => /\ StoreTranscript(r)[Len(StoreTranscript(r))]
                  = [ role |-> "user", content |-> server.requests[r].message ]
             /\ server'.response.stage = server.requests[r].processedTo ]_vars

(***************************************************************************)
(* The terminal stage (Spec)                                               *)
(***************************************************************************)
\* the stage processUserInput leaves the session at on message m
StageAfter(m) == processUserInput(session, m).currentStage

\* C37: session.data.recommendation is present only if currentStage is
\* RECOMMENDATION; RECOMMENDATION is entered only from SUMMARY, on an affirmative
\* reply; and once currentStage is RECOMMENDATION no message changes it.
C37_TerminalRecommendation ==
  /\ [](IsDef(session.data.recommendation) => session.currentStage = STAGES.RECOMMENDATION)
  /\ [](\A m \in Messages :
          IF session.currentStage = STAGES.RECOMMENDATION
          THEN StageAfter(m) = STAGES.RECOMMENDATION
          ELSE StageAfter(m) = STAGES.RECOMMENDATION
                 => session.currentStage = STAGES.SUMMARY /\ Affirms(m))
  /\ [][ session'.currentStage = STAGES.RECOMMENDATION
           => session.currentStage \in { STAGES.SUMMARY, STAGES.RECOMMENDATION } ]_vars
  /\ [][ session.currentStage = STAGES.RECOMMENDATION
           => session'.currentStage = STAGES.RECOMMENDATION ]_vars

\* a session that was confirmed at SUMMARY holds its recommendation at RECOMMENDATION,
\* and has since taken a message that set its custom head
C37_Witness ==
  /\ session.currentStage = STAGES.RECOMMENDATION
  /\ IsDef(session.data.recommendation)
  /\ session.data.customHead = Some(Num(80))
  /\ ~IsDef(session.data.customGPD)

(***************************************************************************)
(* The estimate flag of the drawdown (Spec)                                *)
(***************************************************************************)
\* C38: drawdownEstimated = true implies that drawdownLevel is 10% of the current
\* staticWaterLevel; the flag does not stay set once the drawdown is replaced by a
\* stated number or the staticWaterLevel is revised through a correction of the
\* summary.
C38_EstimateFlagConsistent ==
  /\ [](session.data.drawdownEstimated = Some(TRUE)
          => session.data.drawdownLevel = Some(TenthOfStatic))
  /\ [][ /\ session.currentStage = STAGES.DRAWDOWN
         /\ session'.currentStage = STAGES.ELEVATION
         /\ session'.data.drawdownLevel # Some(Mul(ToNumber(session'.data.staticWaterLevel), Rat(1, 10)))
         => session'.data.drawdownEstimated # Some(TRUE) ]_vars

\* the flag is set by the estimate of the DRAWDOWN case and never assigned again: a
\* session that holds it keeps it
FlagNeverCleared ==
  [][ session.data.drawdownEstimated = Some(TRUE)
        => session'.data.drawdownEstimated = Some(TRUE) ]_vars

(***************************************************************************)
(* Pumping directly to the stock tank (Spec)                               *)
(***************************************************************************)
\* the session is marked as pumping directly to the stock tank
Direct(s) == s.data.directToStockTank = Some(TRUE)

\* the head calculateRecommendation would compute for the session's data
HeadOf(s) == TotalDynamicHead(s.data, calculateWaterRequirements(s.data))

\* C39: with directToStockTank = true and no customHead the total dynamic head of
\* calculateRecommendation is staticWaterLevel + drawdownLevel + elevationGain, without
\* a friction loss, also after the elevation was revised through a correction of the
\* summary; and a session whose directToStockTank is true left ELEVATION, the last time
\* it was there, for WATER_QUALITY, past PIPE_INFO and STORAGE_TANK.
C39_DirectToTank ==
  /\ [](Direct(session) /\ ~TruthyNum(session.data.customHead)
          => HeadOf(session) = StaticLift(session.data))
  /\ [][ /\ session.currentStage = STAGES.ELEVATION
         /\ session'.currentStage \in { STAGES.PIPE_INFO, STAGES.STORAGE_TANK }
         => ~Direct(session') ]_vars

\* directToStockTank is set by the ELEVATION case and never assigned again: a session
\* that holds it keeps it
DirectNeverCleared == [][ Direct(session) => Direct(session') ]_vars

(***************************************************************************)
(* The data a session holds at the summary (Spec)                          *)
(***************************************************************************)
\* the stages at which the data is put to the user or used
ConfirmationStages == { STAGES.SUMMARY, STAGES.RECOMMENDATION }

\* C40: whenever currentStage is SUMMARY or RECOMMENDATION, wellDepth,
\* staticWaterLevel, drawdownLevel, elevationGain and sandyWater have all been
\* assigned, on every path, the jumps of the custom override and the corrections of
\* the summary included; the summary is entered from WELL_CASING alone, so that stage
\* has processed a message too.
C40_CompleteAtConfirmation ==
  /\ [](session.currentStage \in ConfirmationStages
          => /\ IsDef(session.data.wellDepth)
             /\ IsDef(session.data.staticWaterLevel)
             /\ IsDef(session.data.drawdownLevel)
             /\ IsDef(session.data.elevationGain)
             /\ IsDef(session.data.sandyWater))
  /\ [][ session'.currentStage = STAGES.SUMMARY /\ session.currentStage # STAGES.SUMMARY
           => session.currentStage = STAGES.WELL_CASING ]_vars

\* a session back at the summary after a correction: it had gone directly to the
\* stock tank, past PIPE_INFO, and holds a pipe size now
C40_Witness ==
  /\ session.currentStage = STAGES.SUMMARY
  /\ Direct(session)
  /\ IsDef(session.data.pipeSize)
  /\ IsDef(session.data.wellDepth)
  /\ IsDef(session.data.sandyWater)


============================================================================
